---- MODULE Spec2Model ----
(***************************************************************************)
(* A model of the goesbox HRIT/LRIT receiver core (src/src/lrit.rs,        *)
(* src/src/stats.rs, src/goesbox/bin/ui.rs): VCDU frames are routed to a   *)
(* VirtualChannel, which reassembles TP_PDUs and routes them to per-APID   *)
(* sessions; finished sessions are returned as LRIT files.                 *)
(*                                                                         *)
(* Bytes are naturals 0..255, byte buffers are sequences.  An Option<T> is *)
(* a sequence of length at most one (<<>> is None, <<x>> is Some(x)).  A   *)
(* Rust panic (assert!, unwrap on None, slice out of range) is reported by *)
(* ok = FALSE in an operator's result and aborts the program.              *)
(***************************************************************************)
EXTENDS Integers, Sequences, FiniteSets, TLC

VARIABLES
    vcs,        \* App.vcs: VCID -> VirtualChannel (a HashMap: only present keys)
    stats,      \* App.stats
    handled,    \* the LRITs handed to the handler list so far, in order
    aborted,    \* TRUE once a panic has unwound the main thread
    lastRun,    \* history: what the last App::process call did
    wire,       \* sender: bytes of the TP_PDU stream not yet put in a frame
    pdus,       \* sender: the TP_PDUs that have bytes in wire, with their offsets
    txCounter,  \* sender: the VCDU counter of the next frame
    txSeq,      \* sender: APID -> sequence count of its next TP_PDU
    nextId,     \* sender: tag of the next TP_PDU (its one user-data byte)
    refOpen,    \* sender: APIDs whose file is announced and not yet terminated
    expected,   \* sender: tags of the files that received their terminator
    badIds,     \* sender: tags of the TP_PDUs sent with a corrupted CRC
    nFrames,    \* number of frames sent, received or lost
    nLost,      \* number of frames lost between sender and receiver
    fullVcs,    \* a second receiver, which is given the lost frames too
    fullHandled,\* the LRITs the second receiver handed to its handlers
    calc,       \* the operands and result of one diff_with_wrap call
    now,        \* the clock read by Instant::now(), in milliseconds
    calls,      \* the calls of Handler::handle made so far, in order
    driver      \* main's threads: the three queues, the reader, the loop

vars == <<vcs, stats, handled, aborted, lastRun, wire, pdus, txCounter,
          txSeq, nextId, refOpen, expected, badIds, nFrames, nLost, fullVcs,
          fullHandled, calc, now, calls, driver>>

-----------------------------------------------------------------------------
(* Bounds of the model *)

MaxSent == 2
MaxFrames == 3
MaxLost == 1
NearWrap == 3
MaxFeeds == 8
MaxMsg == 3
MaxRecords == 4
MaxKeys == 1
MaxBlocks == 4

-----------------------------------------------------------------------------
(* Program constants *)

VCDU_LEN == 892
VCDU_DATA_LEN == 886
TP_HEADER_LEN == 6
TP_MAX_LEN == 8192
NO_HEADER == 2047
FILL_APID == 2047
FILL_VCID == 63
GARBAGE_LEN == 10
PRIMARY_LEN == 16
CounterModulus == 16777216
SeqModulus == 16384
KeptMessages == 200
DCS_HEADER_LEN == 64
DCS_BLOCK_OVERHEAD == 41

-----------------------------------------------------------------------------
(* Byte buffers *)

Min(a, b) == IF a <= b THEN a ELSE b

Take(s, n) == SubSeq(s, 1, n)

Drop(s, n) == SubSeq(s, n + 1, Len(s))

Zeros(n) == [i \in 1..n |-> 0]

U16(s, i) == s[i] * 256 + s[i + 1]

U32(s, i) == ((s[i] * 256 + s[i + 1]) * 256 + s[i + 2]) * 256 + s[i + 3]

None == << >>

Some(x) == <<x>>

IsSome(o) == Len(o) = 1

Get(o) == o[1]

-----------------------------------------------------------------------------
(* CRC-16/CCITT-FALSE, as crc_any::CRC::crc16ccitt_false computes it *)

RECURSIVE Xor(_, _)
Xor(a, b) ==
    IF a = 0 THEN b
    ELSE IF b = 0 THEN a
    ELSE (((a % 2) + (b % 2)) % 2) + (2 * Xor(a \div 2, b \div 2))

\* XOR of two 4-bit values, tabulated
NibbleXor == [a \in 0..15 |-> [b \in 0..15 |-> Xor(a, b)]]

Xor8(a, b) == (NibbleXor[a \div 16][b \div 16] * 16) + NibbleXor[a % 16][b % 16]

Xor16(a, b) == (Xor8(a \div 256, b \div 256) * 256) + Xor8(a % 256, b % 256)

\* one shift of the CRC register; 4129 = 0x1021 is x^16 + x^12 + x^5 + 1
crc16_shift(crc) ==
    IF crc >= 32768 THEN Xor16((crc * 2) % 65536, 4129) ELSE crc * 2

crc16_bits(crc) ==
    crc16_shift(crc16_shift(crc16_shift(crc16_shift(
    crc16_shift(crc16_shift(crc16_shift(crc16_shift(crc))))))))

\* the register after eight shifts of a byte, tabulated as crc_any does
CrcTable == [b \in 0..255 |-> crc16_bits(b * 256)]

crc16_byte(crc, b) == Xor16((crc % 256) * 256, CrcTable[Xor8(crc \div 256, b)])

\* each intermediate register value is compared, so that it is evaluated
\* before the next byte uses it
RECURSIVE crc16_digest(_, _, _)
crc16_digest(crc, data, i) ==
    IF i > Len(data) THEN crc
    ELSE LET c == crc16_byte(crc, data[i]) IN
         IF c >= 0 THEN crc16_digest(c, data, i + 1) ELSE 0

\* a faulty variant that starts from a register of zero
calc_crc16_from_zero(data) == crc16_digest(0, data, 1)

calc_crc16(data) == crc16_digest(65535, data, 1)

-----------------------------------------------------------------------------
(* CRC-32, as crc_any::CRC::crc32 computes it: the 32-bit register is kept   *)
(* as its two 16-bit halves <<high, low>>                                    *)

\* one shift of the reflected register; 60856 and 33568 are the halves of
\* 0xEDB88320, the reflected polynomial of ISO 3309
crc32_shift(c) ==
    IF c[2] % 2 = 1
    THEN <<Xor16(c[1] \div 2, 60856),
           Xor16((c[2] \div 2) + ((c[1] % 2) * 32768), 33568)>>
    ELSE <<c[1] \div 2, (c[2] \div 2) + ((c[1] % 2) * 32768)>>

crc32_bits(c) ==
    crc32_shift(crc32_shift(crc32_shift(crc32_shift(
    crc32_shift(crc32_shift(crc32_shift(crc32_shift(c))))))))

\* the register after eight shifts of a byte, tabulated as crc_any does
Crc32Table == [b \in 0..255 |-> crc32_bits(<<0, b>>)]

crc32_entry(c, t) ==
    <<Xor16(t[1], c[1] \div 256), Xor16(t[2], (c[2] \div 256) + ((c[1] % 256) * 256))>>

crc32_byte(c, b) == crc32_entry(c, Crc32Table[Xor8(c[2] % 256, b)])

\* the register after the eight bytes of data from index i
crc32_bytes8(crc, data, i) ==
    crc32_byte(crc32_byte(crc32_byte(crc32_byte(
    crc32_byte(crc32_byte(crc32_byte(crc32_byte(
       crc, data[i]), data[i + 1]), data[i + 2]), data[i + 3]),
       data[i + 4]), data[i + 5]), data[i + 6]), data[i + 7])

\* the bytes are taken eight at a time while eight remain, which keeps the
\* recursion shallow on the files of the DCS handler
RECURSIVE crc32_digest(_, _, _)
crc32_digest(crc, data, i) ==
    IF i > Len(data) THEN crc
    ELSE IF i + 7 <= Len(data)
    THEN LET c == crc32_bytes8(crc, data, i) IN
         IF c[1] >= 0 THEN crc32_digest(c, data, i + 8) ELSE <<0, 0>>
    ELSE LET c == crc32_byte(crc, data[i]) IN
         IF c[1] >= 0 THEN crc32_digest(c, data, i + 1) ELSE <<0, 0>>

crc32_final(c) == <<Xor16(c[1], 65535), Xor16(c[2], 65535)>>

calc_crc32(data) == crc32_final(crc32_digest(<<65535, 65535>>, data, 1))

-----------------------------------------------------------------------------
(* diff_with_wrap *)

\* a faulty variant that measures the distance without wrapping
diff_with_wrap_nowrap(low, high, max) ==
    IF low <= high THEN high - low ELSE low - high

diff_with_wrap(low, high, max) ==
    IF low <= high THEN high - low ELSE max - low + high

-----------------------------------------------------------------------------
(* VCDU: a view on the 892 bytes of a frame *)

VCID(bytes) == bytes[2] % 64

counter(bytes) == (bytes[3] * 65536) + (bytes[4] * 256) + bytes[5]

data(bytes) == Drop(bytes, 6)

\* a faulty variant that takes no frame for a fill frame
is_fill_never(bytes) == FALSE

is_fill(bytes) == VCID(bytes) = FILL_VCID

-----------------------------------------------------------------------------
(* TP_PDU *)

\* a faulty variant that does not note the channel of the TP_PDU
TP_PDU_new_novc(vcid) == [vcid |-> 0, header |-> << >>, data |-> << >>]

TP_PDU_new(vcid) == [header |-> << >>, data |-> << >>, vcid |-> vcid]

header_complete(p) == Len(p.header) = TP_HEADER_LEN

\* the 16-bit length field plus one, before the assert of packet_length
packet_length_raw(p) == U16(p.header, 5) + 1

\* packet_length panics: the u16 addition overflows, or assert!(len <= 8192)
packet_length_panics(p) == header_complete(p) /\ packet_length_raw(p) > TP_MAX_LEN

packet_length(p) ==
    IF header_complete(p) THEN Some(packet_length_raw(p)) ELSE None

data_complete(p) ==
    IF IsSome(packet_length(p)) THEN Len(p.data) = Get(packet_length(p)) ELSE FALSE

APID(p) == (p.header[1] % 8) * 256 + p.header[2]

flags(p) == (p.header[3] \div 64) % 4

sequence_count(p) == (p.header[3] % 64) * 256 + p.header[4]

\* is_crc_ok slices data[..len - 2]: a one-byte payload panics
is_crc_ok_panics(p) == data_complete(p) /\ Len(p.data) < 2

\* a faulty variant that accepts every complete TP_PDU
is_crc_ok_always(p) == data_complete(p)

is_crc_ok(p) ==
    IF data_complete(p)
    THEN LET len == Len(p.data)
             computed == calc_crc16(Take(p.data, len - 2))
             received == p.data[len - 1] * 256 + p.data[len]
         IN  computed = received
    ELSE FALSE

\* a faulty variant that reads no payload in the call that completes the header
process_bytes_header_first(p, bytes) ==
    LET hc == header_complete(p)
        a  == IF hc THEN 0 ELSE Min(TP_HEADER_LEN - Len(p.header), Len(bytes))
        p1 == [p EXCEPT !.header = @ \o Take(bytes, a)]
    IN  IF ~hc /\ a = 0
        THEN [pdu |-> p, used |-> 0, ok |-> FALSE]
        ELSE IF ~hc
        THEN [pdu |-> p1, used |-> a, ok |-> TRUE]
        ELSE IF packet_length_panics(p1)
        THEN [pdu |-> p1, used |-> a, ok |-> FALSE]
        ELSE LET needed == packet_length_raw(p1) - Len(p1.data)
                 b == Min(needed, Len(bytes) - a)
             IN  IF needed <= 0
                 THEN [pdu |-> p1, used |-> a, ok |-> FALSE]
                 ELSE [pdu |-> [p1 EXCEPT !.data = @ \o SubSeq(bytes, a + 1, a + b)],
                       used |-> a + b, ok |-> TRUE]

\* a faulty variant that returns the number of payload bytes only
process_bytes_miscounts(p, bytes) ==
    LET hc == header_complete(p)
        a  == IF hc THEN 0 ELSE Min(TP_HEADER_LEN - Len(p.header), Len(bytes))
        p1 == [p EXCEPT !.header = @ \o Take(bytes, a)]
    IN  IF ~hc /\ a = 0
        THEN [pdu |-> p, used |-> 0, ok |-> FALSE]
        ELSE IF ~header_complete(p1)
        THEN [pdu |-> p1, used |-> a, ok |-> TRUE]
        ELSE IF packet_length_panics(p1)
        THEN [pdu |-> p1, used |-> a, ok |-> FALSE]
        ELSE LET needed == packet_length_raw(p1) - Len(p1.data)
                 b == Min(needed, Len(bytes) - a)
             IN  IF needed <= 0
                 THEN [pdu |-> p1, used |-> a, ok |-> FALSE]
                 ELSE [pdu |-> [p1 EXCEPT !.data = @ \o SubSeq(bytes, a + 1, a + b)],
                       used |-> b, ok |-> TRUE]

process_bytes(p, bytes) ==
    LET hc == header_complete(p)
        a  == IF hc THEN 0 ELSE Min(TP_HEADER_LEN - Len(p.header), Len(bytes))
        p1 == [p EXCEPT !.header = @ \o Take(bytes, a)]
    IN  IF ~hc /\ a = 0
        THEN [pdu |-> p, used |-> 0, ok |-> FALSE]           \* assert!(a > 0)
        ELSE IF ~header_complete(p1)
        THEN [pdu |-> p1, used |-> a, ok |-> TRUE]
        ELSE IF packet_length_panics(p1)
        THEN [pdu |-> p1, used |-> a, ok |-> FALSE]
        ELSE LET needed == packet_length_raw(p1) - Len(p1.data)
                 b == Min(needed, Len(bytes) - a)
             IN  IF needed <= 0
                 THEN [pdu |-> p1, used |-> a, ok |-> FALSE] \* assert!(needed_bytes > 0)
                 ELSE [pdu |-> [p1 EXCEPT !.data = @ \o SubSeq(bytes, a + 1, a + b)],
                       used |-> a + b, ok |-> TRUE]

-----------------------------------------------------------------------------
(* LRIT header records *)

PrimaryHeader_from_bytes(d) ==
    IF Len(d) < PRIMARY_LEN THEN None
    ELSE Some([header_type |-> d[1],
               header_record_lenth |-> U16(d, 2),
               filetype_code |-> d[4],
               total_header_length |-> U32(d, 5),
               data_field_bits |-> <<U32(d, 9), U32(d, 13)>>])   \* u64: high, low

NoPrimary ==
    [header_type |-> 0, header_record_lenth |-> 0, filetype_code |-> 0,
     total_header_length |-> 0, data_field_bits |-> <<0, 0>>]

Headers_new(primary) ==
    [primary |-> primary, img_strucutre |-> None, rice_compression |-> None,
     others |-> {}]

\* the header types read_headers knows after the primary header
KnownTypes == {1, 2, 3, 4, 5, 6, 128, 129, 130, 131}

\* the types whose from_bytes sizes a buffer of (record length - 3) bytes
TextTypes == {3, 4, 6, 130}

\* the fewest bytes from_bytes of a record type accepts: its explicit length
\* test, or the three bytes of type and length its cursor reads unwrap
HeaderMinLen(t) ==
    CASE t = 1 -> 16
      [] t = 2 -> 51
      [] t = 5 -> 14
      [] t = 128 -> 17
      [] t = 129 -> 14
      [] t = 131 -> 7
      [] OTHER -> 3

RECURSIVE read_records(_, _, _)
read_records(d, offset, h) ==
    IF offset >= h.primary.total_header_length THEN [ok |-> TRUE, headers |-> h]
    ELSE IF offset >= Len(d) THEN [ok |-> FALSE, headers |-> h]  \* data[offset]
    ELSE LET t == d[offset + 1]
             rest == Drop(d, offset)
         IN  IF t \notin KnownTypes \/ Len(rest) < HeaderMinLen(t)
             THEN [ok |-> FALSE, headers |-> h]
             ELSE LET len == U16(rest, 2) IN
                  IF (t \in TextTypes /\ len < 3) \/ len = 0
                  THEN [ok |-> FALSE, headers |-> h]
                  ELSE read_records(d, offset + len,
                         CASE t = 1 ->
                                [h EXCEPT !.img_strucutre =
                                    Some([bits_per_pixel |-> rest[4],
                                          num_columns |-> U16(rest, 5),
                                          num_lines |-> U16(rest, 7),
                                          compression |-> rest[9]])]
                           [] t = 131 ->
                                [h EXCEPT !.rice_compression =
                                    Some([flags |-> U16(rest, 4),
                                          pixels_per_block |-> rest[6],
                                          scanlines_per_packet |-> rest[7]])]
                           [] OTHER -> [h EXCEPT !.others = @ \cup {t}])

\* read_headers after PrimaryHeader::from_bytes(...).expect(...)
read_after_primary(d, prim) ==
    IF ~IsSome(prim) THEN [ok |-> FALSE, headers |-> Headers_new(NoPrimary)]
    ELSE IF Get(prim).header_type # 0 \/ Get(prim).header_record_lenth # PRIMARY_LEN
    THEN [ok |-> FALSE, headers |-> Headers_new(Get(prim))]
    ELSE IF Get(prim).total_header_length = PRIMARY_LEN
    THEN [ok |-> TRUE, headers |-> Headers_new(Get(prim))]
    ELSE read_records(d, Get(prim).header_record_lenth, Headers_new(Get(prim)))

read_headers(d) == read_after_primary(d, PrimaryHeader_from_bytes(d))

\* acres::sz::Sz::decompress: one scanline of num_columns pixels per TP_PDU
sz_decompress(params, d) ==
    [ok |-> Len(d) > 0,
     out |-> [i \in 1..params.pixels_per_scanline |-> d[((i - 1) % Len(d)) + 1]]]

\* check_headers_for_rice_compression after its call of read_headers
rice_params(r) ==
    IF ~r.ok THEN [ok |-> FALSE, decomp |-> None]
    ELSE IF IsSome(r.headers.img_strucutre) /\ IsSome(r.headers.rice_compression)
    THEN [ok |-> TRUE,
          decomp |-> Some([pixels_per_scanline |-> Get(r.headers.img_strucutre).num_columns,
                           bits_per_pixel |-> Get(r.headers.img_strucutre).bits_per_pixel,
                           pixels_per_block |-> Get(r.headers.rice_compression).pixels_per_block])]
    ELSE [ok |-> TRUE, decomp |-> None]

check_headers_for_rice_compression(d) == rice_params(read_headers(d))

-----------------------------------------------------------------------------
(* Session *)

NoSession ==
    [bytes |-> << >>, last_seq |-> 0, apid |-> 0, needs_decomp |-> None, vcid |-> 0]

\* Session::new_from_pdu once the decompression mode chk is known
new_session(pdu, bytes, prim, chk) ==
    IF ~chk.ok \/ (IsSome(chk.decomp) /\ Len(bytes) # Get(prim).total_header_length)
    THEN [ok |-> FALSE, session |-> NoSession]
    ELSE [ok |-> TRUE,
          session |-> [bytes |-> bytes,
                       last_seq |-> sequence_count(pdu),
                       apid |-> APID(pdu),
                       needs_decomp |-> chk.decomp,
                       vcid |-> pdu.vcid]]

\* Session::new_from_pdu with the payload stripped of CRC and leading bytes
new_from_bytes(pdu, bytes, prim) ==
    new_session(pdu, bytes, prim,
                IF IsSome(prim) /\ Len(bytes) >= Get(prim).total_header_length
                THEN check_headers_for_rice_compression(bytes)
                ELSE [ok |-> TRUE, decomp |-> None])

Session_new_from_pdu(pdu) ==
    IF \/ ~header_complete(pdu) \/ ~data_complete(pdu)
       \/ is_crc_ok_panics(pdu) \/ ~is_crc_ok(pdu)       \* the three asserts
       \/ Len(pdu.data) - 2 < GARBAGE_LEN                 \* split_off(10)
    THEN [ok |-> FALSE, session |-> NoSession]
    ELSE new_from_bytes(pdu, Drop(Take(pdu.data, Len(pdu.data) - 2), GARBAGE_LEN),
                        PrimaryHeader_from_bytes(
                            Drop(Take(pdu.data, Len(pdu.data) - 2), GARBAGE_LEN)))

\* a faulty variant that puts the payload before the bytes of the session
Session_extend_prepends(s, pdu) ==
    LET d == Take(pdu.data, Len(pdu.data) - 2)
        s1 == [s EXCEPT !.last_seq = sequence_count(pdu)]
    IN  IF IsSome(s.needs_decomp) \/ Len(d) >= 1000000
        THEN [ok |-> FALSE, session |-> s]
        ELSE [ok |-> TRUE, session |-> [s1 EXCEPT !.bytes = d \o @]]

\* a faulty variant that refuses a TP_PDU that is not the next in sequence
Session_extend_strict(s, pdu) ==
    LET d == Take(pdu.data, Len(pdu.data) - 2)
        s1 == [s EXCEPT !.last_seq = sequence_count(pdu)]
    IN  IF diff_with_wrap(s.last_seq, sequence_count(pdu), SeqModulus) > 1
        THEN [ok |-> TRUE, session |-> s]
        ELSE IF IsSome(s.needs_decomp) \/ Len(d) >= 1000000
        THEN [ok |-> FALSE, session |-> s]
        ELSE [ok |-> TRUE, session |-> [s1 EXCEPT !.bytes = @ \o d]]

\* Session::append after its CRC test: strip the CRC, note the sequence count
\* (a gap in it is only logged), extend the buffer
Session_extend(s, pdu) ==
    LET d == Take(pdu.data, Len(pdu.data) - 2)
        s1 == [s EXCEPT !.last_seq = sequence_count(pdu)]
    IN  IF IsSome(s.needs_decomp)
        THEN LET params == Get(s.needs_decomp)
                 r == sz_decompress(params, d)
             IN  IF Len(d) > params.pixels_per_scanline \/ ~r.ok
                    \/ Len(r.out) # params.pixels_per_scanline
                 THEN [ok |-> FALSE, session |-> s]
                 ELSE [ok |-> TRUE, session |-> [s1 EXCEPT !.bytes = @ \o r.out]]
        ELSE IF Len(d) >= 1000000
        THEN [ok |-> FALSE, session |-> s]
        ELSE [ok |-> TRUE, session |-> [s1 EXCEPT !.bytes = @ \o d]]

\* a faulty variant that extends the session without the CRC test
Session_append_unchecked(s, pdu) == Session_extend(s, pdu)

Session_append(s, pdu) ==
    IF ~header_complete(pdu) \/ ~data_complete(pdu) \/ is_crc_ok_panics(pdu)
    THEN [ok |-> FALSE, session |-> s]
    ELSE IF ~is_crc_ok(pdu)
    THEN [ok |-> TRUE, session |-> s]
    ELSE Session_extend(s, pdu)

NoLRIT == [vcid |-> 0, headers |-> Headers_new(NoPrimary), data |-> << >>]

\* a faulty variant that splits the buffer wherever the header says, taking
\* nothing when that is beyond its end
finish_with_lenient(s, r) ==
    IF ~r.ok THEN [ok |-> FALSE, lrit |-> NoLRIT]
    ELSE [ok |-> TRUE,
          lrit |-> [vcid |-> s.vcid, headers |-> r.headers,
                    data |-> Drop(s.bytes, r.headers.primary.total_header_length)]]

\* Session::finish after its call of read_headers
finish_with(s, r) ==
    IF ~r.ok \/ r.headers.primary.total_header_length > Len(s.bytes)
    THEN [ok |-> FALSE, lrit |-> NoLRIT]
    ELSE [ok |-> TRUE,
          lrit |-> [vcid |-> s.vcid, headers |-> r.headers,
                    data |-> Drop(s.bytes, r.headers.primary.total_header_length)]]

Session_finish(s) == finish_with(s, read_headers(s.bytes))

-----------------------------------------------------------------------------
(* Stats *)

Stats_new ==
    [packets |-> 0, bytes |-> 0, fills |-> 0, discards |-> 0,
     vcdu_packets |-> << >>, apid |-> << >>]

Bump(m, k) ==
    [x \in DOMAIN m \cup {k} |-> IF x \in DOMAIN m THEN
                                    (IF x = k THEN m[x] + 1 ELSE m[x])
                                 ELSE 1]

record_Packet(st) == [st EXCEPT !.packets = @ + 1]

record_DiscardedDataPacket(st) == [st EXCEPT !.discards = @ + 1]

record_APID(st, id) == [st EXCEPT !.apid = Bump(@, id)]

\* a faulty variant that uses the front bucket whatever its age
record_VCDUPacket_unaged(st, id, t, t2) ==
    IF Len(st.vcdu_packets) > 0
    THEN [st EXCEPT !.vcdu_packets[1].map = Bump(@, id)]
    ELSE [st EXCEPT !.vcdu_packets = <<[inst |-> t2, map |-> Bump(<< >>, id)]>> \o @]

\* Stat::VCDUPacket(id): inst.elapsed() reads the clock at t, and
\* Instant::now() reads it again at t2 when a bucket is pushed
record_VCDUPacket_at(st, id, t, t2) ==
    IF Len(st.vcdu_packets) > 0 /\ t - st.vcdu_packets[1].inst < 1000
    THEN [st EXCEPT !.vcdu_packets[1].map = Bump(@, id)]
    ELSE [st EXCEPT !.vcdu_packets = <<[inst |-> t2, map |-> Bump(<< >>, id)]>> \o @]

record_VCDUPacket(st, id, t) == record_VCDUPacket_at(st, id, t, t)

-----------------------------------------------------------------------------
(* VirtualChannel *)

\* a faulty variant that starts every channel at counter 0
VirtualChannel_new_zero(id, initial_counter) ==
    [id |-> id, current_tp_pdu |-> None, apid_map |-> << >>, last_counter |-> 0]

VirtualChannel_new(id, initial_counter) ==
    [id |-> id, current_tp_pdu |-> None, apid_map |-> << >>,
     last_counter |-> initial_counter]

\* a faulty variant of HashMap::remove that removes nothing
MapRemove_keep(m, k) == m

MapRemove(m, k) == [x \in DOMAIN m \ {k} |-> m[x]]

MapInsert(m, k, v) == [x \in DOMAIN m \cup {k} |-> IF x = k THEN v ELSE m[x]]

MapGet(m, k) == IF k \in DOMAIN m THEN Some(m[k]) ELSE None

\* what process returns when it panics
process_fail(vc, st) == [ok |-> FALSE, vc |-> vc, lrit |-> None, stats |-> st]

\* the LRIT of a finished session is returned
finished(vc, st, f) ==
    IF ~f.ok THEN process_fail(vc, st)
    ELSE [ok |-> TRUE, vc |-> vc, lrit |-> Some(f.lrit), stats |-> st]

\* a faulty variant in which a flag-1 TP_PDU does not replace an open session
opened_keeps_old(vc, tp_pdu, st, n) ==
    IF ~n.ok THEN process_fail(vc, st)
    ELSE IF flags(tp_pdu) = 1
    THEN [ok |-> TRUE,
          vc |-> IF APID(tp_pdu) \in DOMAIN vc.apid_map THEN vc
                 ELSE [vc EXCEPT !.apid_map = MapInsert(@, APID(tp_pdu), n.session)],
          lrit |-> None, stats |-> st]
    ELSE finished([vc EXCEPT !.apid_map = MapRemove(@, APID(tp_pdu))], st,
                  Session_finish(n.session))

\* the arm of process for sequence flags 1 and 3, after the old session is
\* removed and Session::new_from_pdu returned n
opened(vc, tp_pdu, st, n) ==
    IF ~n.ok THEN process_fail(vc, st)
    ELSE IF flags(tp_pdu) = 1
    THEN [ok |-> TRUE,
          vc |-> [vc EXCEPT !.apid_map =
                     MapInsert(MapRemove(@, APID(tp_pdu)), APID(tp_pdu), n.session)],
          lrit |-> None, stats |-> st]
    ELSE finished([vc EXCEPT !.apid_map = MapRemove(@, APID(tp_pdu))], st,
                  Session_finish(n.session))

\* the arm of process for sequence flags 1 and 3
process_opener(vc, tp_pdu, st) == opened(vc, tp_pdu, st, Session_new_from_pdu(tp_pdu))

\* the arm of process for sequence flag 0 with a session: a is what
\* Session::append returned
appended(vc, apid, st, a) ==
    IF ~a.ok THEN process_fail(vc, st)
    ELSE [ok |-> TRUE, vc |-> [vc EXCEPT !.apid_map[apid] = a.session],
          lrit |-> None, stats |-> st]

\* the arm of process for sequence flag 0
process_middle(vc, tp_pdu, st) ==
    IF APID(tp_pdu) \in DOMAIN vc.apid_map
    THEN appended(vc, APID(tp_pdu), st,
                  Session_append(vc.apid_map[APID(tp_pdu)], tp_pdu))
    ELSE [ok |-> TRUE, vc |-> vc, lrit |-> None,
          stats |-> record_DiscardedDataPacket(st)]

\* the arm of process for sequence flag 2 with a session: the session is
\* removed, and finished after Session::append returned a
terminated(vc, apid, st, a) ==
    IF ~a.ok THEN process_fail(vc, st)
    ELSE finished([vc EXCEPT !.apid_map = MapRemove(@, apid)], st,
                  Session_finish(a.session))

\* the arm of process for sequence flag 2
process_last(vc, tp_pdu, st) ==
    IF APID(tp_pdu) \in DOMAIN vc.apid_map
    THEN terminated(vc, APID(tp_pdu), st,
                    Session_append(vc.apid_map[APID(tp_pdu)], tp_pdu))
    ELSE [ok |-> TRUE, vc |-> vc, lrit |-> None, stats |-> st]

\* a faulty variant that tests for the fill APID after counting the APID
process_counts_fill(vc, tp_pdu, st) ==
    IF APID(tp_pdu) = FILL_APID
    THEN [ok |-> TRUE, vc |-> vc, lrit |-> None,
          stats |-> record_APID(st, APID(tp_pdu))]
    ELSE IF flags(tp_pdu) = 1 \/ flags(tp_pdu) = 3
    THEN process_opener(vc, tp_pdu, record_APID(st, APID(tp_pdu)))
    ELSE IF flags(tp_pdu) = 0
    THEN process_middle(vc, tp_pdu, record_APID(st, APID(tp_pdu)))
    ELSE process_last(vc, tp_pdu, record_APID(st, APID(tp_pdu)))

\* VirtualChannel::process: route one completed TP_PDU
process(vc, tp_pdu, st) ==
    LET st1 == record_APID(st, APID(tp_pdu))
    IN  IF APID(tp_pdu) = FILL_APID
        THEN [ok |-> TRUE, vc |-> vc, lrit |-> None, stats |-> st]
        ELSE IF flags(tp_pdu) = 1 \/ flags(tp_pdu) = 3
        THEN process_opener(vc, tp_pdu, st1)
        ELSE IF flags(tp_pdu) = 0
        THEN process_middle(vc, tp_pdu, st1)
        ELSE process_last(vc, tp_pdu, st1)

\* history of one call of process: what was routed and what it did
Event(vc, st, tp_pdu, r) ==
    [apid |-> APID(tp_pdu),
     flags |-> flags(tp_pdu),
     seq |-> sequence_count(tp_pdu),
     pdu |-> IF APID(tp_pdu) = FILL_APID /\ tp_pdu.data = Zeros(Len(tp_pdu.data))
             THEN [tp_pdu EXCEPT !.data = << >>]      \* padding is left out
             ELSE tp_pdu,
     pre |-> vc.apid_map,
     post |-> r.vc.apid_map,
     lrit |-> r.lrit,
     stats_pre |-> st,
     stats_post |-> r.stats,
     ok |-> r.ok]

\* a faulty variant that puts a new LRIT before those collected so far
routed_prepends(acc, tp_pdu, r) ==
    [ok |-> r.ok,
     vc |-> r.vc,
     lrits |-> IF IsSome(r.lrit) THEN <<Get(r.lrit)>> \o acc.lrits ELSE acc.lrits,
     stats |-> r.stats,
     events |-> Append(acc.events, Event(acc.vc, acc.stats, tp_pdu, r))]

\* the running result of process_vcdu (the channel, the LRITs collected so
\* far, the statistics, the history) after process returned r
routed(acc, tp_pdu, r) ==
    [ok |-> r.ok,
     vc |-> r.vc,
     lrits |-> IF IsSome(r.lrit) THEN Append(acc.lrits, Get(r.lrit)) ELSE acc.lrits,
     stats |-> r.stats,
     events |-> Append(acc.events, Event(acc.vc, acc.stats, tp_pdu, r))]

Route(acc, tp_pdu) == routed(acc, tp_pdu, process(acc.vc, tp_pdu, acc.stats))

Panic(acc) == [acc EXCEPT !.ok = FALSE]

RECURSIVE new_tp_pdus(_, _, _)

\* one turn of the while loop of process_vcdu: r is what process_bytes made
\* of a new TP_PDU and the frame's data from offset
new_tp_pdu(acc, d, offset, r) ==
    IF ~r.ok THEN Panic(acc)
    ELSE IF header_complete(r.pdu) /\ data_complete(r.pdu)
    THEN new_tp_pdus(Route(acc, r.pdu), d, offset + r.used)
    ELSE IF offset + r.used # Len(d) THEN Panic(acc)
    ELSE [acc EXCEPT !.vc.current_tp_pdu = Some(r.pdu)]

\* the while loop of process_vcdu: TP_PDUs that start in this frame
new_tp_pdus(acc, d, offset) ==
    IF ~acc.ok \/ offset >= Len(d) THEN acc
    ELSE new_tp_pdu(acc, d, offset,
                    process_bytes(TP_PDU_new(acc.vc.id), Drop(d, offset)))

\* faulty variants: no gap is ever seen; gaps are seen where there is none
counter_gap_never(last, new) == FALSE

counter_gap_flipped(last, new) == diff_with_wrap(last, new, CounterModulus) <= 1

\* the test that a frame was lost: the counter advanced by more than one
counter_gap(last, new) == diff_with_wrap(last, new, CounterModulus) > 1

\* process_vcdu after the in-flight TP_PDU completed and was routed: the
\* pointer must agree with where it ended; then the TP_PDUs that start here
vcdu_rest(acc1, d, first_header, offset) ==
    IF ~acc1.ok THEN acc1
    ELSE IF first_header # NO_HEADER /\ offset - 2 # first_header THEN Panic(acc1)
    ELSE IF first_header = NO_HEADER THEN acc1
    ELSE new_tp_pdus(acc1, d, offset)

\* a faulty variant that keeps the in-flight TP_PDU stored when it completed
vcdu_continue_keeps(acc0, tp_pdu, d, first_header, r) ==
    IF \/ data_complete(tp_pdu)
       \/ /\ IsSome(packet_length(tp_pdu))
          /\ first_header # NO_HEADER
          /\ first_header < Get(packet_length(tp_pdu)) - Len(tp_pdu.data)
       \/ ~r.ok
       \/ ~header_complete(r.pdu)
    THEN Panic(acc0)
    ELSE IF data_complete(r.pdu)
    THEN vcdu_rest(Route([acc0 EXCEPT !.vc.current_tp_pdu = Some(r.pdu)], r.pdu),
                   d, first_header, 2 + r.used)
    ELSE IF 2 + r.used # Len(d) THEN Panic(acc0)
    ELSE [acc0 EXCEPT !.vc.current_tp_pdu = Some(r.pdu)]

\* process_vcdu with an in-flight TP_PDU: r is what process_bytes made of
\* it and the frame's data from byte 2
vcdu_continue(acc0, tp_pdu, d, first_header, r) ==
    IF \/ data_complete(tp_pdu)
       \/ /\ IsSome(packet_length(tp_pdu))
          /\ first_header # NO_HEADER
          /\ first_header < Get(packet_length(tp_pdu)) - Len(tp_pdu.data)
       \/ ~r.ok
       \/ ~header_complete(r.pdu)
    THEN Panic(acc0)
    ELSE IF data_complete(r.pdu)
    THEN vcdu_rest(Route(acc0, r.pdu), d, first_header, 2 + r.used)
    ELSE IF 2 + r.used # Len(d) THEN Panic(acc0)
    ELSE [acc0 EXCEPT !.vc.current_tp_pdu = Some(r.pdu)]

\* process_vcdu after the counter test: vc1 is the channel with the gap
\* handled, acc0 the running result after self.current_tp_pdu.take()
vcdu_frame(valid, vc1, acc0, d, first_header) ==
    IF ~valid \/ d[1] \div 8 # 0 THEN Panic(acc0)
    ELSE IF IsSome(vc1.current_tp_pdu)
    THEN vcdu_continue(acc0, Get(vc1.current_tp_pdu), d, first_header,
                       process_bytes(Get(vc1.current_tp_pdu), Drop(d, 2)))
    ELSE IF first_header = NO_HEADER THEN acc0
    ELSE new_tp_pdus(acc0, d, 2 + first_header)

vcdu_checked(valid, vc1, d, st) ==
    vcdu_frame(valid, vc1,
               [ok |-> TRUE, vc |-> [vc1 EXCEPT !.current_tp_pdu = None],
                lrits |-> << >>, stats |-> st, events |-> << >>],
               d, ((d[1] % 8) * 256) + d[2])

\* a faulty variant that also forgets the channel's sessions at a gap
process_vcdu_forgets(vc, vcdu, st) ==
    vcdu_checked(Len(data(vcdu)) = VCDU_DATA_LEN /\ VCID(vcdu) = vc.id,
                 IF counter_gap(vc.last_counter, counter(vcdu))
                 THEN [VirtualChannel_new(vc.id, counter(vcdu)) EXCEPT
                          !.last_counter = counter(vcdu)]
                 ELSE [vc EXCEPT !.last_counter = counter(vcdu)],
                 data(vcdu), st)

process_vcdu(vc, vcdu, st) ==
    vcdu_checked(Len(data(vcdu)) = VCDU_DATA_LEN /\ VCID(vcdu) = vc.id,
                 [vc EXCEPT !.current_tp_pdu =
                                IF counter_gap(vc.last_counter, counter(vcdu))
                                THEN None ELSE @,
                            !.last_counter = counter(vcdu)],
                 data(vcdu), st)

-----------------------------------------------------------------------------
(* App::process and the body of the driver loop's network arm *)

\* a faulty variant that stores the channel under every key of the map
App_routed_all(vs, id, r) ==
    [ok |-> r.ok, vcs |-> [x \in DOMAIN vs \cup {id} |-> r.vc], stats |-> r.stats,
     lrits |-> r.lrits, events |-> r.events]

\* App::process after the statistics: r is what process_vcdu returned
App_routed(vs, id, r) ==
    [ok |-> r.ok, vcs |-> MapInsert(vs, id, r.vc), stats |-> r.stats,
     lrits |-> r.lrits, events |-> r.events]

App_counted(vs, id, st1, vcdu) ==
    IF is_fill(vcdu)
    THEN [ok |-> TRUE, vcs |-> vs, stats |-> st1, lrits |-> << >>, events |-> << >>]
    ELSE App_routed(vs, id,
                    process_vcdu(IF id \in DOMAIN vs THEN vs[id]
                                 ELSE VirtualChannel_new(id, counter(vcdu)),
                                 vcdu, st1))

App_process(vs, st, t, vcdu) ==
    App_counted(vs, VCID(vcdu), record_VCDUPacket(record_Packet(st), VCID(vcdu), t),
                vcdu)

-----------------------------------------------------------------------------
(* EMWIN file names: ParsedEmwinName::parse and the WMO abbreviated heading  *)
(* it reads.  A name is the sequence of its characters; a value of an enum   *)
(* is named by the characters it was made from                               *)

Digits == <<"0", "1", "2", "3", "4", "5", "6", "7", "8", "9">>

\* char::to_digit(10)
to_digit(c) ==
    IF \E d \in DOMAIN Digits : Digits[d] = c
    THEN Some((CHOOSE d \in DOMAIN Digits : Digits[d] = c) - 1)
    ELSE None

\* WMODataTypeT1::from: the data types of table A; another letter panics
TableA ==
    [A |-> "Analyses", B |-> "AddressedMessage", C |-> "ClimaticData",
     D |-> "GridD", F |-> "Forecasts", N |-> "Notices", S |-> "SurfaceData",
     T |-> "SatalliteData", U |-> "UpperAirData", W |-> "Warnings",
     P |-> "Pictoral", Q |-> "PictoralRegional", E |-> "SatelliteImg"]

WMODataTypeT1_from(c) ==
    IF c \in DOMAIN TableA THEN [ok |-> TRUE, dt |-> TableA[c]]
    ELSE [ok |-> FALSE, dt |-> ""]

\* the letters T2 that lookup_table_b1 knows for the data types whose
\* other letters panic
TableB1 ==
    [Forecasts |-> {"H", "O", "S", "A", "B", "C", "D", "E", "F", "G", "H", "I", "J", "K", "L",
        "M", "N", "O", "P", "Q", "R", "S", "T", "U", "V"},
     SurfaceData |-> {"A", "B", "C", "D", "E", "F", "G", "H", "I", "L", "M", "N", "O", "P",
        "R", "S", "T", "U", "V", "W", "X", "Y", "Z"},
     Warnings |-> {"A", "C", "E", "F", "G", "H", "O", "R", "S", "T", "U", "V", "W"}]

\* lookup_table_b1: TRUE when it returns; the other data types of table B1
\* have a variant for the letters they do not know
lookup_table_b1(dt, t2) ==
    IF dt \in DOMAIN TableB1 THEN t2 \in TableB1[dt]
    ELSE dt \in {"Analyses", "ClimaticData", "Notices", "SatalliteData", "UpperAirData"}

lookup_table_b6(t2) == t2 \in {"A", "B", "C", "D", "E", "F", "G", "H", "I", "J", "K", "L", "M",
        "N", "O", "P", "Q", "R", "S", "T", "U", "V", "W", "X", "Y", "Z"}

lookup_table_b5(t2) == t2 \in {"C", "F", "I", "S", "V", "W", "Y", "Z"}

\* AreaDesignator::from_c1: the area designators of table C1
TableC1 ==
    {<<"A", "B">>, <<"A", "G">>, <<"A", "H">>, <<"A", "I">>, <<"A", "J">>,
     <<"A", "K">>, <<"A", "L">>, <<"A", "N">>, <<"A", "T">>, <<"A", "U">>,
     <<"A", "Y">>, <<"A", "Z">>, <<"B", "A">>, <<"B", "C">>, <<"B", "D">>,
     <<"B", "E">>, <<"B", "H">>, <<"B", "I">>, <<"B", "J">>, <<"B", "K">>,
     <<"B", "M">>, <<"B", "N">>, <<"B", "O">>, <<"B", "R">>, <<"B", "T">>,
     <<"B", "U">>, <<"B", "V">>, <<"B", "W">>, <<"B", "X">>, <<"B", "Y">>,
     <<"B", "Z">>, <<"C", "D">>, <<"C", "E">>, <<"C", "G">>, <<"C", "H">>,
     <<"C", "I">>, <<"C", "M">>, <<"C", "N">>, <<"C", "O">>, <<"C", "R">>,
     <<"C", "S">>, <<"C", "T">>, <<"C", "U">>, <<"C", "V">>, <<"C", "Y">>,
     <<"C", "Z">>, <<"E", "G">>, <<"E", "I">>, <<"E", "O">>, <<"E", "Q">>,
     <<"E", "R">>, <<"E", "S">>, <<"E", "T">>, <<"F", "A">>, <<"F", "G">>,
     <<"F", "I">>, <<"F", "J">>, <<"F", "K">>, <<"F", "M">>, <<"F", "P">>,
     <<"F", "R">>, <<"F", "W">>, <<"G", "B">>, <<"G", "C">>, <<"G", "D">>,
     <<"G", "E">>, <<"G", "G">>, <<"G", "H">>, <<"G", "I">>, <<"G", "L">>,
     <<"G", "M">>, <<"G", "N">>, <<"G", "O">>, <<"G", "Q">>, <<"G", "R">>,
     <<"G", "U">>, <<"G", "W">>, <<"G", "Y">>, <<"H", "A">>, <<"H", "E">>,
     <<"H", "K">>, <<"H", "O">>, <<"H", "U">>, <<"H", "V">>, <<"H", "W">>,
     <<"K", "A">>, <<"K", "B">>, <<"K", "I">>, <<"K", "K">>, <<"K", "N">>,
     <<"K", "O">>, <<"K", "P">>, <<"K", "R">>, <<"K", "U">>, <<"K", "W">>,
     <<"K", "Y">>, <<"K", "Z">>, <<"M", "A">>, <<"M", "B">>, <<"M", "C">>,
     <<"M", "D">>, <<"M", "F">>, <<"M", "G">>, <<"M", "H">>, <<"M", "I">>,
     <<"M", "J">>, <<"M", "K">>, <<"M", "L">>, <<"M", "N">>, <<"M", "O">>,
     <<"M", "R">>, <<"M", "S">>, <<"M", "T">>, <<"M", "U">>, <<"M", "V">>,
     <<"M", "W">>, <<"M", "X">>, <<"M", "Y">>, <<"M", "Z">>, <<"N", "C">>,
     <<"N", "E">>, <<"N", "G">>, <<"N", "I">>, <<"N", "K">>, <<"N", "L">>,
     <<"N", "M">>, <<"N", "O">>, <<"N", "P">>, <<"N", "R">>, <<"N", "U">>,
     <<"N", "V">>, <<"N", "W">>, <<"N", "Z">>, <<"P", "F">>, <<"P", "H">>,
     <<"P", "I">>, <<"P", "K">>, <<"P", "L">>, <<"P", "M">>, <<"P", "O">>,
     <<"P", "P">>, <<"P", "R">>, <<"P", "T">>, <<"P", "U">>, <<"P", "Y">>,
     <<"S", "B">>, <<"S", "C">>, <<"S", "D">>, <<"S", "G">>, <<"S", "I">>,
     <<"S", "K">>, <<"S", "L">>, <<"S", "M">>, <<"S", "N">>, <<"S", "O">>,
     <<"S", "P">>, <<"S", "Q">>, <<"S", "R">>, <<"S", "U">>, <<"S", "V">>,
     <<"S", "W">>, <<"S", "X">>, <<"S", "Y">>, <<"S", "Z">>, <<"T", "A">>,
     <<"T", "C">>, <<"T", "D">>, <<"T", "G">>, <<"T", "H">>, <<"T", "I">>,
     <<"T", "K">>, <<"T", "M">>, <<"T", "N">>, <<"T", "O">>, <<"T", "P">>,
     <<"T", "R">>, <<"T", "S">>, <<"T", "U">>, <<"T", "V">>, <<"U", "G">>,
     <<"U", "K">>, <<"U", "R">>, <<"U", "S">>, <<"U", "Y">>, <<"U", "Z">>,
     <<"Z", "A">>, <<"Z", "B">>, <<"Z", "M">>, <<"Z", "R">>, <<"Z", "S">>,
     <<"Z", "W">>, <<"A", "A">>, <<"A", "C">>, <<"A", "E">>, <<"A", "F">>,
     <<"A", "M">>, <<"A", "O">>, <<"A", "P">>, <<"A", "S">>, <<"A", "W">>,
     <<"A", "X">>, <<"C", "A">>, <<"E", "A">>, <<"E", "C">>, <<"E", "E">>,
     <<"E", "M">>, <<"E", "N">>, <<"E", "U">>, <<"E", "W">>, <<"F", "E">>,
     <<"G", "A">>, <<"G", "X">>, <<"I", "O">>, <<"N", "A">>, <<"N", "T">>,
     <<"P", "A">>, <<"P", "E">>, <<"P", "N">>, <<"P", "Q">>, <<"P", "S">>,
     <<"P", "W">>, <<"P", "Z">>, <<"S", "A">>, <<"S", "E">>, <<"S", "J">>,
     <<"S", "S">>, <<"S", "T">>, <<"H", "N">>, <<"X", "X">>}

from_c1(aa) == IF aa \in TableC1 THEN Some(aa) ELSE None

lookup_nature_and_area(a1, a2) ==
    IF a1 \in {"W", "V", "F"} /\ a2 \in {"A", "B", "C", "D", "E", "F", "J", "X"}
    THEN Some(<<a1, a2>>) ELSE None

\* from_c3, from_c4 and from_c5 panic on a letter they do not know
from_c3(c) == c \in {"A", "B", "C", "D", "E", "F", "G", "H", "I", "J", "K", "L", "N", "S", "T",
        "X", "U", "P"}

from_c4(c) == c \in {"A", "B", "C", "D", "E", "F", "G", "H", "I", "J", "K", "L", "M", "N", "O",
        "P", "Q", "R", "S", "T", "U", "V"}

from_c5(c) == c \in {"A", "B", "C", "D", "E", "F", "G", "H", "I", "J", "K", "L", "M", "N", "O",
        "P", "Q"}

\* the second match of parse_wmo_abbreviated_heading: TRUE when it returns
heading_area(dt, aa) ==
    IF dt \in {"Analyses", "ClimaticData", "SatelliteImg", "Forecasts", "Notices",
               "Warnings"}
    THEN IsSome(from_c1(aa))
    ELSE IF dt \in {"SurfaceData", "UpperAirData"}
    THEN IsSome(lookup_nature_and_area(aa[1], aa[2])) \/ IsSome(from_c1(aa))
    ELSE IF dt \in {"PictoralRegional", "SatalliteData"}
    THEN from_c3(aa[1]) /\ (IF dt = "SatalliteData" THEN from_c4(aa[2]) ELSE from_c5(aa[2]))
    ELSE FALSE

\* the first match of parse_wmo_abbreviated_heading: TRUE when it returns
heading_type(dt, t2) ==
    IF dt \in {"Analyses", "ClimaticData", "Forecasts", "Notices", "SurfaceData",
               "SatalliteData", "UpperAirData", "Warnings"}
    THEN lookup_table_b1(dt, t2)
    ELSE IF dt \in {"Pictoral", "PictoralRegional"} THEN lookup_table_b6(t2)
    ELSE IF dt = "SatelliteImg" THEN lookup_table_b5(t2)
    ELSE FALSE

heading_of(r, t2, aa) ==
    IF r.ok /\ heading_type(r.dt, t2) /\ heading_area(r.dt, aa)
    THEN [ok |-> TRUE, data_type_1 |-> r.dt, data_type_2 |-> <<r.dt, t2>>, area |-> aa]
    ELSE [ok |-> FALSE, data_type_1 |-> "", data_type_2 |-> << >>, area |-> << >>]

parse_wmo_abbreviated_heading(t1, t2, aa) == heading_of(WMODataTypeT1_from(t1), t2, aa)

Originator_from_ii(i1, i2) ==
    IF i1 >= 4 /\ i1 <= 8 THEN <<"region", i2>> ELSE <<"Unknown", (i1 * 10) + i2>>

\* the number written by a sequence of digits
RECURSIVE Number(_)
Number(cs) ==
    IF cs = << >> THEN 0
    ELSE (Number(Take(cs, Len(cs) - 1)) * 10) + Get(to_digit(cs[Len(cs)]))

AllDigits(cs) == \A i \in DOMAIN cs : IsSome(to_digit(cs[i]))

\* str::parse::<u32> of six characters: digits, with or without a plus sign
parse_u32(cs) ==
    IF AllDigits(cs) THEN Some(Number(cs))
    ELSE IF cs[1] = "+" /\ AllDigits(Tail(cs)) THEN Some(Number(Tail(cs)))
    ELSE None

DaysInMonth(y, m) ==
    IF m = 2
    THEN (IF (y % 4 = 0 /\ y % 100 # 0) \/ y % 400 = 0 THEN 29 ELSE 28)
    ELSE IF m \in {4, 6, 9, 11} THEN 30 ELSE 31

date_of(y, m, d, hh, mm, ss) ==
    IF m \in 1..12 /\ d \in 1..DaysInMonth(y, m) /\ hh <= 23 /\ mm <= 59 /\ ss <= 60
    THEN Some([year |-> y, month |-> m, day |-> d, hour |-> hh, minute |-> mm,
               second |-> ss])
    ELSE None

\* chrono::NaiveDateTime::parse_from_str with "%Y%m%d%H%M%S" of 14 characters
parse_from_str(cs) ==
    IF ~AllDigits(cs) THEN None
    ELSE date_of(Number(SubSeq(cs, 1, 4)), Number(SubSeq(cs, 5, 6)),
                 Number(SubSeq(cs, 7, 8)), Number(SubSeq(cs, 9, 10)),
                 Number(SubSeq(cs, 11, 12)), Number(SubSeq(cs, 13, 14)))

\* the value parse returns: ok is FALSE when it panics, value is None or Some
Returned(v) == [ok |-> TRUE, value |-> v]

Panicked == [ok |-> FALSE, value |-> None]

\* parse from the date on: h is the heading, the slices panic on a name
\* that is too short
parse_rest(filename, h) ==
    IF ~h.ok \/ Len(filename) < 40 THEN Panicked
    ELSE IF ~IsSome(parse_from_str(SubSeq(filename, 27, 40))) THEN Returned(None)
    ELSE IF Len(filename) < 47 THEN Panicked
    ELSE IF ~IsSome(parse_u32(SubSeq(filename, 42, 47))) THEN Returned(None)
    ELSE IF Len(filename) < 50 \/ filename[49] \notin {"1", "2", "3", "4"} THEN Panicked
    ELSE Returned(Some(
             [pflag |-> filename[1],
              data_type_1 |-> h.data_type_1,
              data_type_2 |-> h.data_type_2,
              area |-> h.area,
              originator |->
                  Originator_from_ii(
                      IF IsSome(to_digit(filename[7])) THEN Get(to_digit(filename[7])) ELSE 0,
                      IF IsSome(to_digit(filename[8])) THEN Get(to_digit(filename[8])) ELSE 0),
              location |-> SubSeq(filename, 9, 12),
              date |-> Get(parse_from_str(SubSeq(filename, 27, 40))),
              sequence |-> Get(parse_u32(SubSeq(filename, 42, 47))),
              priority |-> Get(to_digit(filename[49])),
              legacy_filename |-> Drop(filename, 50)]))

ParsedEmwinName_parse(filename) ==
    IF Len(filename) < 18 THEN Returned(None)
    ELSE IF filename[1] \notin {"A", "Z"} \/ filename[2] # "_" THEN Returned(None)
    ELSE parse_rest(filename,
                    parse_wmo_abbreviated_heading(filename[3], filename[4],
                                                  SubSeq(filename, 5, 6)))

-----------------------------------------------------------------------------
(* DCS files: DcsHeader::parse, DcsBlock::parse and DcsHandler::handle.    *)
(* A Result is a record whose ret is "Ok" or the name of the error, or       *)
(* "Panic" when the call does not return.  Text is the sequence of its       *)
(* ASCII codes                                                               *)

\* a little-endian u16 and u32 at 0-based offset i; the u32 as <<high, low>>
U16LE(s, i) == s[i + 1] + (256 * s[i + 2])

U32LE(s, i) == <<U16LE(s, i + 2), U16LE(s, i)>>

\* str::trim on ASCII text
IsSpace(c) == c \in {9, 10, 11, 12, 13, 32}

RECURSIVE trim_start(_)
trim_start(cs) ==
    IF cs # << >> /\ IsSpace(cs[1]) THEN trim_start(Tail(cs)) ELSE cs

RECURSIVE trim_end(_)
trim_end(cs) ==
    IF cs # << >> /\ IsSpace(cs[Len(cs)]) THEN trim_end(Take(cs, Len(cs) - 1)) ELSE cs

trim(cs) == trim_end(trim_start(cs))

RECURSIVE Decimal(_)
Decimal(cs) ==
    IF cs = << >> THEN 0
    ELSE (Decimal(Take(cs, Len(cs) - 1)) * 10) + (cs[Len(cs)] - 48)

\* str::parse::<u64> of at most eight characters: digits, with or without
\* a plus sign
parse_u64(cs) ==
    LET ds == IF cs # << >> /\ cs[1] = 43 THEN Tail(cs) ELSE cs
    IN  IF ds = << >> \/ \E i \in DOMAIN ds : ds[i] \notin 48..57 THEN None
        ELSE Some(Decimal(ds))

NoDcsHeader ==
    [name |-> << >>, payload_len |-> 0, payload_source |-> << >>,
     payload_type |-> << >>, header_crc |-> <<0, 0>>, file_crc |-> <<0, 0>>]

\* DcsHeader::parse once 64 bytes are known to be there; warns counts its
\* warnings of a CRC mismatch
DcsHeader_read(d, len) ==
    IF ~IsSome(len)
    THEN [ret |-> "Parse", header |-> NoDcsHeader, warns |-> 0]
    ELSE [ret |-> "Ok",
          header |-> [name |-> trim(SubSeq(d, 1, 32)),
                      payload_len |-> Get(len),
                      payload_source |-> trim(SubSeq(d, 41, 44)),
                      payload_type |-> trim(SubSeq(d, 45, 48)),
                      header_crc |-> U32LE(d, 60),
                      file_crc |-> U32LE(d, Len(d) - 4)],
          warns |-> (IF calc_crc32(Take(d, 60)) # U32LE(d, 60) THEN 1 ELSE 0)
                       + (IF calc_crc32(Take(d, Len(d) - 4)) # U32LE(d, Len(d) - 4)
                          THEN 1 ELSE 0)]

DcsHeader_parse(d) ==
    IF Len(d) < DCS_HEADER_LEN                   \* read_exact, read_u32
    THEN [ret |-> "Io", header |-> NoDcsHeader, warns |-> 0]
    ELSE DcsHeader_read(d, parse_u64(trim(SubSeq(d, 33, 40))))

\* the carrier time of seven BCD bytes at 0-based offset i is one that
\* NaiveDate::from_yo and and_hms_milli accept (they panic otherwise)
BcdTimeOk(d, i) ==
    LET year == (10 * (d[i + 7] \div 16)) + (d[i + 7] % 16)
        day == (100 * (d[i + 6] \div 16)) + (10 * (d[i + 6] % 16)) + (d[i + 5] \div 16)
        hour == (10 * (d[i + 5] % 16)) + (d[i + 4] \div 16)
        minute == (10 * (d[i + 4] % 16)) + (d[i + 3] \div 16)
        second == (10 * (d[i + 3] % 16)) + (d[i + 2] \div 16)
    IN  /\ day >= 1
        /\ day <= (IF year % 4 = 0 /\ year # 100 THEN 366 ELSE 365)
        /\ hour < 24
        /\ minute < 60
        /\ second < 60

\* the state of DcsBlock::parse between two turns of its loop: the cursor,
\* the byte counter, the blocks pushed; starts is the history of the cursor
\* at the start of each turn
BlocksStart ==
    [pos |-> 0, byte_counter |-> 0, blocks |-> << >>, starts |-> << >>, warns |-> 0]

Ended(ret, s) ==
    [ret |-> ret, blocks |-> s.blocks, starts |-> s.starts, pos |-> s.pos,
     byte_counter |-> s.byte_counter, warns |-> s.warns]

\* the turn skips the block with a warning and leaves the cursor at pos
Skip(s, len, pos) ==
    [s EXCEPT !.pos = pos, !.byte_counter = @ + len + 1,
              !.starts = Append(@, s.pos), !.warns = @ + 1]

\* the turn pushes the block
Push(s, d, len) ==
    [s EXCEPT !.pos = s.pos + len, !.byte_counter = @ + len + 1,
              !.starts = Append(@, s.pos),
              !.blocks = Append(@, [block_id |-> d[s.pos + 1],
                                    block_len |-> len,
                                    sequence |-> d[s.pos + 4] + (256 * d[s.pos + 5])
                                                    + (65536 * d[s.pos + 6]),
                                    baud_rate |-> d[s.pos + 7] % 8,
                                    data |-> SubSeq(d, s.pos + 40, s.pos + len - 2)])]

\* one turn of the loop on a block of id 1 and length len at the cursor:
\* the state after it when the loop goes on, or how the call ends
block_turn(d, s, len) ==
    LET start == s.pos IN
    IF Len(d) < start + 7 THEN Ended("Io", s)
    ELSE IF (d[start + 7] % 8) \notin {1, 2, 3}
    THEN [ret |-> "Continue", s |-> Skip(s, len, start + 7)]
    ELSE IF Len(d) < start + 19 THEN Ended("Io", s)
    ELSE IF ~BcdTimeOk(d, start + 12) THEN Ended("Panic", s)
    ELSE IF Len(d) < start + 26 THEN Ended("Io", s)
    ELSE IF ~BcdTimeOk(d, start + 19) THEN Ended("Panic", s)
    ELSE IF Len(d) < start + 39 THEN Ended("Io", s)
    ELSE IF len < DCS_BLOCK_OVERHEAD THEN Ended("Panic", s)
    ELSE IF Len(d) < start + len THEN Ended("Io", s)
    ELSE IF U16LE(d, start + len - 2) # calc_crc16(SubSeq(d, start + 1, start + len - 2))
    THEN [ret |-> "Continue", s |-> Skip(s, len, start + len)]
    ELSE [ret |-> "Continue", s |-> Push(s, d, len)]

\* one turn of the loop: the block id and length are read, a block of
\* another id than 1 is skipped by a seek to its end
loop_turn(d, checks, s) ==
    IF Len(d) < s.pos + 3 THEN Ended("Io", s)
    ELSE IF d[s.pos + 1] # 1
    THEN IF checks /\ U16LE(d, s.pos + 1) < 3            \* block_len - 3 in warn!
         THEN Ended("Panic", s)
         ELSE [ret |-> "Continue",
               s |-> Skip(s, U16LE(d, s.pos + 1), s.pos + U16LE(d, s.pos + 1))]
    ELSE block_turn(d, s, U16LE(d, s.pos + 1))

\* while byte_counter < data.len() - 4, where the subtraction wraps when
\* the data has fewer than 4 bytes and overflow is not checked
loop_goes_on(d, checks, s) == Len(d) < 4 \/ s.byte_counter < Len(d) - 4

RECURSIVE parse_loop(_, _, _)
parse_loop(d, checks, s) ==
    IF checks /\ Len(d) < 4 THEN Ended("Panic", s)
    ELSE IF ~loop_goes_on(d, checks, s) THEN Ended("Ok", s)
    ELSE LET t == loop_turn(d, checks, s) IN
         IF t.ret # "Continue" THEN t
         ELSE IF Len(t.s.starts) > 0 THEN parse_loop(d, checks, t.s)
         ELSE Ended("Ok", s)

\* DcsBlock::parse; checks says whether the build checks integer overflow
DcsBlock_parse(d, checks) == parse_loop(d, checks, BlocksStart)

\* DcsHandler::handle after DcsHeader::parse returned h; disk says whether
\* the file can be written
handle_parsed(lrit, h, disk, checks) ==
    IF h.ret # "Ok" THEN h.ret
    ELSE IF h.header.payload_type # <<68, 67, 83, 72>> THEN "Parse"
    ELSE IF h.header.payload_len # Len(lrit.data) THEN "Panic"       \* assert_eq!
    ELSE LET b == DcsBlock_parse(Drop(lrit.data, DCS_HEADER_LEN), checks) IN
         IF b.ret # "Ok" THEN b.ret
         ELSE IF ~disk THEN "Io"
         ELSE "Ok"

DcsHandler_handle(lrit, disk, checks) ==
    IF lrit.headers.primary.filetype_code # 130 THEN "Skipped"
    ELSE IF ~IsSome(lrit.headers.noaa) THEN "MissingHeader"
    ELSE IF Get(lrit.headers.noaa).product_id # 8 THEN "Skipped"
    ELSE IF ~IsSome(lrit.headers.annotation) THEN "MissingHeader"
    ELSE handle_parsed(lrit, DcsHeader_parse(lrit.data), disk, checks)

-----------------------------------------------------------------------------
(* The sender: TP_PDUs serialised into a byte stream, cut into VCDU frames *)

\* the M_PDU packet zone: the frame's data after the 2-byte M_PDU header
ZONE_LEN == VCDU_DATA_LEN - 2

\* the virtual channels and APIDs of the modelled downlink
StreamVCs == {1}

APIDs == {100}

\* the virtual channels and APIDs of the multiplexed downlink
MuxVCs == {1, 2}

MuxAPIDs == {100, 101}

\* a TP_PDU is put so that this many of its bytes are in the frame it starts
\* in and the rest in the next one (0: wherever the stream stands)
Rooms == {0, 3, 20}

TextFile == 2

TP_header(apid, flag, seq, len) ==
    <<apid \div 256, apid % 256, (flag * 64) + (seq \div 256), seq % 256,
      (len - 1) \div 256, (len - 1) % 256>>

PrimaryHeaderBytes(filetype, total, bits) ==
    <<0, 0, PRIMARY_LEN, filetype, 0, 0, 0, total, 0, 0, 0, 0, 0, 0, 0, bits>>

\* user data of a TP_PDU: an opener carries the 10 leading bytes, a primary
\* header and one byte of file data; a continuation one byte of file data
Body(flag, id) ==
    IF flag \in {1, 3}
    THEN Zeros(GARBAGE_LEN) \o PrimaryHeaderBytes(TextFile, PRIMARY_LEN, 8) \o <<id>>
    ELSE <<id>>

AppendCrc(body, crc) == body \o <<crc \div 256, crc % 256>>

WithCrc(body, good) ==
    AppendCrc(body, (calc_crc16(body) + (IF good THEN 0 ELSE 1)) % 65536)

Framed(apid, flag, seq, payload) ==
    TP_header(apid, flag, seq, Len(payload)) \o payload

DataPdu(apid, flag, seq, id, good) ==
    Framed(apid, flag, seq, WithCrc(Body(flag, id), good))

FillPdu(total) ==
    TP_header(FILL_APID, 3, 0, total - TP_HEADER_LEN) \o Zeros(total - TP_HEADER_LEN)

MakeVCDU(vcid, ctr, ptr, zone) ==
    <<64, vcid, ctr \div 65536, (ctr \div 256) % 256, ctr % 256, 0,
      ptr \div 256, ptr % 256>> \o zone

SetMin(S) == CHOOSE x \in S : \A y \in S : x <= y

\* the first-header pointer of the frame cut from the head of the wire
Pointer(ps) ==
    LET S == {ps[i].start : i \in 1..Len(ps)} \cap (0..(ZONE_LEN - 1))
    IN  IF S = {} THEN NO_HEADER ELSE SetMin(S)

RECURSIVE SelectSeq2(_, _)
SelectSeq2(ps, keep) ==
    IF ps = << >> THEN << >>
    ELSE IF keep[1] THEN <<Head(ps)>> \o SelectSeq2(Tail(ps), Tail(keep))
    ELSE SelectSeq2(Tail(ps), Tail(keep))

\* the TP_PDUs whose last byte is in the frame cut from the head of the wire
Completed(ps) == SelectSeq2(ps, [i \in 1..Len(ps) |-> ps[i].end <= ZONE_LEN])

\* those that continue in the next frame, with offsets relative to it
Remaining(ps, hit) ==
    LET rest == SelectSeq2(ps, [i \in 1..Len(ps) |-> ps[i].end > ZONE_LEN])
    IN  [i \in 1..Len(rest) |->
            [rest[i] EXCEPT !.start = @ - ZONE_LEN, !.end = @ - ZONE_LEN,
                            !.hit = @ \/ hit]]

\* the reference receiver of section 4.6: which files are open, and which
\* received their terminator, after the TP_PDUs ps arrived complete
RECURSIVE RefRoute(_, _)
RefRoute(ref, ps) ==
    IF ps = << >> THEN ref
    ELSE LET p == Head(ps) IN
         RefRoute(
           IF p.hit \/ ~p.good \/ p.apid = FILL_APID THEN ref
           ELSE IF p.flag = 1
           THEN [ref EXCEPT !.open = MapInsert(@, p.apid, p.id)]
           ELSE IF p.flag = 3
           THEN [open |-> MapRemove(ref.open, p.apid), done |-> Append(ref.done, p.id)]
           ELSE IF p.flag = 2 /\ p.apid \in DOMAIN ref.open
           THEN [open |-> MapRemove(ref.open, p.apid),
                 done |-> Append(ref.done, ref.open[p.apid])]
           ELSE ref,
           Tail(ps))

-----------------------------------------------------------------------------
(* State machine *)

NoRun ==
    [vcdu |-> << >>, pre |-> << >>, stats |-> Stats_new, events |-> << >>,
     lrits |-> << >>, ok |-> TRUE, n |-> 0]

NoCalc == [low |-> 0, high |-> 0, max |-> 0, d |-> -1]

\* main before its loop: the three channels are made, the logger has sent
\* "Connected and subscribed" (the text of a message is left out: each is
\* "message"), the reader thread and the loop run; read,
\* taken and keys are the history of what the reader read from the socket
\* and of what the loop received from the network and keyboard queues
DriverStart ==
    [net |-> << >>, kbd |-> << >>, log |-> <<"message">>,
     reader |-> "reading", loop |-> "running", messages |-> << >>,
     read |-> << >>, taken |-> << >>, keys |-> << >>]

StartWith(ctr) ==
    /\ vcs = << >>
    /\ stats = Stats_new
    /\ handled = << >>
    /\ aborted = FALSE
    /\ lastRun = NoRun
    /\ wire = [v \in MuxVCs |-> << >>]
    /\ pdus = [v \in MuxVCs |-> << >>]
    /\ txCounter = ctr
    /\ txSeq = [a \in MuxAPIDs \cup {FILL_APID} |-> SeqModulus - 2]
    /\ nextId = 1
    /\ refOpen = [v \in MuxVCs |-> << >>]
    /\ expected = << >>
    /\ badIds = {}
    /\ nFrames = 0
    /\ nLost = 0
    /\ fullVcs = << >>
    /\ fullHandled = << >>
    /\ now = 0
    /\ calls = << >>
    /\ driver = DriverStart

\* both senders start two frames before their counters wrap
Start == StartWith([v \in MuxVCs |-> CounterModulus - 2])

Init == Start /\ calc = NoCalc

Desc(start, end, apid, flag, good, id) ==
    [start |-> start, end |-> end, apid |-> apid, flag |-> flag, good |-> good,
     id |-> id, hit |-> FALSE]

\* the wire and its TP_PDUs after a fill TP_PDU that ends at offset target
Padded(w, target) ==
    IF Len(w.wire) >= target THEN w
    ELSE [wire |-> w.wire \o FillPdu(target - Len(w.wire)),
          pdus |-> Append(w.pdus, Desc(Len(w.wire), target, FILL_APID, 3, TRUE, 0))]

CanPad(w, target) == Len(w.wire) = target \/ Len(w.wire) + TP_HEADER_LEN + 1 <= target

\* the wire of channel v becomes w followed by the TP_PDU bytes
Queued(v, apid, flag, good, w, bytes) ==
    /\ wire' = [wire EXCEPT ![v] = w.wire \o bytes]
    /\ pdus' = [pdus EXCEPT ![v] = Append(w.pdus,
                   Desc(Len(w.wire), Len(w.wire) + Len(bytes), apid, flag, good,
                        nextId))]

\* the sender queues one data TP_PDU, after a fill TP_PDU that leaves it
\* room bytes of the current frame when room > 0
PutBytes(v, apid, flag, good, room, bytes) ==
    /\ ~aborted
    /\ nFrames < MaxFrames
    /\ Len(wire[v]) < ZONE_LEN
    /\ room > 0 => good /\ Len(wire[v]) + TP_HEADER_LEN + 1 <= ZONE_LEN - room
    /\ Queued(v, apid, flag, good,
              IF room > 0
              THEN Padded([wire |-> wire[v], pdus |-> pdus[v]], ZONE_LEN - room)
              ELSE [wire |-> wire[v], pdus |-> pdus[v]],
              bytes)
    /\ txSeq' = [txSeq EXCEPT ![apid] = (@ + 1) % SeqModulus]
    /\ nextId' = nextId + 1
    /\ badIds' = IF good THEN badIds ELSE badIds \cup {nextId}
    /\ UNCHANGED <<vcs, stats, handled, aborted, lastRun, txCounter, refOpen,
                   expected, nFrames, nLost, fullVcs, fullHandled, calc, now, calls, driver>>

PutPdu(v, apid, flag, good, room) ==
    PutBytes(v, apid, flag, good, room, DataPdu(apid, flag, txSeq[apid], nextId, good))

\* the sender queues at most MaxSent TP_PDUs of its choice
Put(v, apid, flag, good, room) ==
    /\ nextId <= MaxSent
    /\ PutPdu(v, apid, flag, good, room)

\* the sender completes the frame at the head of the wire with a fill TP_PDU
\* (ending with the frame, or with the next frame when long) and cuts it
CanCut(v, long) ==
    /\ long => Len(wire[v]) < ZONE_LEN
    /\ \/ Len(wire[v]) >= ZONE_LEN
       \/ CanPad([wire |-> wire[v], pdus |-> pdus[v]],
                 IF long THEN 2 * ZONE_LEN ELSE ZONE_LEN)

Cut(v, long) ==
    LET w == Padded([wire |-> wire[v], pdus |-> pdus[v]],
                    IF long THEN 2 * ZONE_LEN ELSE ZONE_LEN)
    IN  [vcdu |-> MakeVCDU(v, txCounter[v], Pointer(w.pdus), Take(w.wire, ZONE_LEN)),
         rest |-> Drop(w.wire, ZONE_LEN),
         pdus |-> w.pdus]

\* the network arm of the driver loop after App::process returned r: the
\* LRITs are handed to the handlers; a panic ends the program
Received(v, f, r, ref) ==
    /\ wire' = [wire EXCEPT ![v] = f.rest]
    /\ pdus' = [pdus EXCEPT ![v] = Remaining(f.pdus, FALSE)]
    /\ lastRun' = [vcdu |-> f.vcdu, pre |-> vcs, stats |-> stats,
                   events |-> r.events, lrits |-> r.lrits, ok |-> r.ok,
                   n |-> nFrames + 1]
    /\ aborted' = ~r.ok
    /\ IF r.ok
       THEN /\ vcs' = r.vcs
            /\ stats' = r.stats
            /\ handled' = handled \o r.lrits
       ELSE UNCHANGED <<vcs, stats, handled>>
    /\ refOpen' = [refOpen EXCEPT ![v] = ref.open]
    /\ expected' = ref.done
    /\ txCounter' = [txCounter EXCEPT ![v] = (@ + 1) % CounterModulus]
    /\ nFrames' = nFrames + 1
    /\ UNCHANGED <<txSeq, nextId, badIds, nLost, calc, now>>

\* the network arm of the driver loop: a frame is read from the socket and
\* processed by App::process
Receive(v, f) ==
    Received(v, f, App_process(vcs, stats, now, f.vcdu),
             RefRoute([open |-> refOpen[v], done |-> expected], Completed(f.pdus)))

Deliver(v, long) ==
    /\ ~aborted
    /\ nFrames < MaxFrames
    /\ CanCut(v, long)
    /\ Receive(v, Cut(v, long))
    /\ UNCHANGED <<fullVcs, fullHandled, calls, driver>>

Next ==
    \/ \E v \in StreamVCs, apid \in APIDs, flag \in 0..3, good \in BOOLEAN,
          room \in Rooms : Put(v, apid, flag, good, room)
    \/ \E v \in StreamVCs, long \in BOOLEAN : Deliver(v, long)

Spec == Init /\ [][Next]_vars

-----------------------------------------------------------------------------
(* Frame loss: the same sender, CRC-valid TP_PDUs, at most one frame lost;   *)
(* a second receiver is given every frame                                    *)

FullReceived(r) ==
    /\ fullVcs' = IF r.ok THEN r.vcs ELSE fullVcs
    /\ fullHandled' = IF r.ok THEN fullHandled \o r.lrits ELSE fullHandled

\* stats are left out of the second receiver: they do not affect its LRITs
FullReceive(f) == FullReceived(App_process(fullVcs, Stats_new, now, f.vcdu))

PutValid(v, apid, flag, room) == Put(v, apid, flag, TRUE, room)

DeliverBoth(v, long) ==
    /\ ~aborted
    /\ nFrames < MaxFrames
    /\ CanCut(v, long)
    /\ Receive(v, Cut(v, long))
    /\ FullReceive(Cut(v, long))
    /\ UNCHANGED <<calls, driver>>

\* the frame is lost on its way: the socket never yields it
DropFrame(v, long) ==
    /\ ~aborted
    /\ nFrames < MaxFrames
    /\ nLost < MaxLost
    /\ CanCut(v, long)
    /\ LET f == Cut(v, long)
       IN  /\ wire' = [wire EXCEPT ![v] = f.rest]
           /\ pdus' = [pdus EXCEPT ![v] = Remaining(f.pdus, TRUE)]
           /\ FullReceive(f)
    /\ txCounter' = [txCounter EXCEPT ![v] = (@ + 1) % CounterModulus]
    /\ nFrames' = nFrames + 1
    /\ nLost' = nLost + 1
    /\ UNCHANGED <<vcs, stats, handled, aborted, lastRun, txSeq, nextId, refOpen,
                   expected, badIds, calc, now, calls, driver>>

NextLoss ==
    \/ \E v \in StreamVCs, apid \in APIDs, flag \in 0..3, room \in Rooms :
          PutValid(v, apid, flag, room)
    \/ \E v \in StreamVCs, long \in BOOLEAN : DeliverBoth(v, long)
    \/ \E v \in StreamVCs, long \in BOOLEAN : DropFrame(v, long)

SpecLoss == Init /\ [][NextLoss]_vars

-----------------------------------------------------------------------------
(* A lost frame within one file: the sender queues the TP_PDUs of one APID  *)
(* on one channel, one more than in the other streams, so that a TP_PDU of  *)
(* an open session can be lost with the frame and a later one arrive        *)

PutGap(v, apid, flag, room) ==
    /\ nextId <= MaxSent + 1
    /\ PutPdu(v, apid, flag, TRUE, room)

NextGap ==
    \/ \E v \in StreamVCs, apid \in APIDs, flag \in 0..3, room \in Rooms :
          PutGap(v, apid, flag, room)
    \/ \E v \in StreamVCs, long \in BOOLEAN : DeliverBoth(v, long)
    \/ \E v \in StreamVCs, long \in BOOLEAN : DropFrame(v, long)

SpecGap == Init /\ [][NextGap]_vars

-----------------------------------------------------------------------------
(* diff_with_wrap on its own: operands near both ends of the counter range,  *)
(* for the 24-bit VCDU counter and the 14-bit TP_PDU sequence count          *)

Operands(max) == (0..NearWrap) \cup ((max - 1 - NearWrap)..(max - 1))

InitDiff ==
    /\ Start
    /\ \E max \in {CounterModulus, SeqModulus} :
          \E low \in Operands(max), high \in Operands(max) :
             calc = [low |-> low, high |-> high, max |-> max, d |-> -1]

ApplyDiff ==
    /\ calc.d = -1
    /\ calc' = [calc EXCEPT !.d = diff_with_wrap(calc.low, calc.high, calc.max)]
    /\ UNCHANGED <<vcs, stats, handled, aborted, lastRun, wire, pdus, txCounter,
                   txSeq, nextId, refOpen, expected, badIds, nFrames, nLost,
                   fullVcs, fullHandled, now, calls, driver>>

NextDiff == ApplyDiff

SpecDiff == InitDiff /\ [][NextDiff]_vars

-----------------------------------------------------------------------------
(* Fill: one virtual channel whose sender starts at any of a few counters,   *)
(* fill frames (VCID 63) between its frames, and TP_PDUs of the fill APID    *)
(* that carry a payload, with any sequence flag and CRC                      *)

\* the counters the sender can start at: far from the wrap, and at it
FirstCounters == {0, 5, CounterModulus - 1}

\* a TP_PDU is put wherever the stream stands, or so that it straddles frames
FewRooms == {0, 20}

InitFill ==
    /\ \E c \in FirstCounters : StartWith([v \in MuxVCs |-> c])
    /\ calc = NoCalc

\* a TP_PDU of the fill APID with a payload
PutFill(v, flag, good) == Put(v, FILL_APID, flag, good, 0)

\* the packet zone of the fill frames: it holds a complete CRC-valid file
\* for APID 100, which a receiver that routed the frame would hand out
FillZone ==
    Padded([wire |-> DataPdu(100, 3, 0, 0, TRUE), pdus |-> << >>], ZONE_LEN).wire

FillVCDU == MakeVCDU(FILL_VCID, 0, 0, FillZone)

\* the network arm of the driver loop for a frame of no sender's channel
FillReceived(vcdu, r) ==
    /\ lastRun' = [vcdu |-> vcdu, pre |-> vcs, stats |-> stats,
                   events |-> r.events, lrits |-> r.lrits, ok |-> r.ok,
                   n |-> nFrames + 1]
    /\ aborted' = ~r.ok
    /\ IF r.ok
       THEN /\ vcs' = r.vcs
            /\ stats' = r.stats
            /\ handled' = handled \o r.lrits
       ELSE UNCHANGED <<vcs, stats, handled>>
    /\ nFrames' = nFrames + 1
    /\ UNCHANGED <<wire, pdus, txCounter, txSeq, nextId, refOpen, expected,
                   badIds, nLost, fullVcs, fullHandled, calc, now, calls, driver>>

FillFrame ==
    /\ ~aborted
    /\ nFrames < MaxFrames
    /\ FillReceived(FillVCDU, App_process(vcs, stats, now, FillVCDU))

NextFill ==
    \/ \E v \in StreamVCs, apid \in APIDs, flag \in 0..3, room \in FewRooms :
          PutValid(v, apid, flag, room)
    \/ \E v \in StreamVCs, flag \in 0..3, good \in BOOLEAN : PutFill(v, flag, good)
    \/ \E v \in StreamVCs, long \in BOOLEAN : Deliver(v, long)
    \/ FillFrame

SpecFill == InitFill /\ [][NextFill]_vars

-----------------------------------------------------------------------------
(* The multiplexed downlink: two virtual channels that carry the same APID,  *)
(* one of them a second APID too, their frames interleaved in any order; a   *)
(* second receiver is given the frames of one channel only                   *)

\* which APIDs each channel carries
MuxStreams == {<<1, 100>>, <<1, 101>>, <<2, 100>>}

\* the channels whose frames the second receiver is given
SoloVCs == {1}

\* channel 1 starts one frame before its counter wraps, channel 2 elsewhere
InitMux ==
    /\ StartWith([v \in MuxVCs |-> (CounterModulus - 6 + (5 * v)) % CounterModulus])
    /\ calc = NoCalc

\* a CRC-valid TP_PDU is put wherever the stream of its channel stands
PutMux(v, apid, flag) ==
    /\ <<v, apid>> \in MuxStreams
    /\ Put(v, apid, flag, TRUE, 0)

DeliverSolo(v, long) ==
    /\ ~aborted
    /\ nFrames < MaxFrames
    /\ CanCut(v, long)
    /\ Receive(v, Cut(v, long))
    /\ IF v \in SoloVCs THEN FullReceive(Cut(v, long))
       ELSE UNCHANGED <<fullVcs, fullHandled>>
    /\ UNCHANGED <<calls, driver>>

NextMux ==
    \/ \E v \in MuxVCs, apid \in MuxAPIDs, flag \in 0..3 : PutMux(v, apid, flag)
    \/ \E v \in MuxVCs, long \in BOOLEAN : DeliverSolo(v, long)

SpecMux == InitMux /\ [][NextMux]_vars

-----------------------------------------------------------------------------
(* Interleaved files: on one channel the sender puts the TP_PDUs of two      *)
(* files of APIDs 100 and 101 in turn (first, first, middle, middle, last,   *)
(* last), at any place in the frames                                         *)

Script ==
    <<[apid |-> 100, flag |-> 1], [apid |-> 101, flag |-> 1],
      [apid |-> 100, flag |-> 0], [apid |-> 101, flag |-> 0],
      [apid |-> 100, flag |-> 2], [apid |-> 101, flag |-> 2]>>

PutScript(v, room) ==
    /\ nextId <= Len(Script)
    /\ PutPdu(v, Script[nextId].apid, Script[nextId].flag, TRUE, room)

NextOrder ==
    \/ \E v \in StreamVCs, room \in Rooms : PutScript(v, room)
    \/ \E v \in StreamVCs, long \in BOOLEAN : Deliver(v, long)

SpecOrder == Init /\ [][NextOrder]_vars

-----------------------------------------------------------------------------
(* Header sets: one channel, CRC-valid TP_PDUs, files whose openers carry    *)
(* header sets of several kinds, well-formed and not                         *)

\* "text": a primary header and one more record, an annotation of one
\* character; "overlong": an annotation that declares more bytes than the
\* file has, counted in total_header_length; "short": a total_header_length
\* beyond the file with no record to fill it; "unknown": a record of a type
\* read_headers does not know
Kinds == {"text", "overlong", "short", "unknown"}

\* the bytes of the header set of a file of one kind
HeaderSet(kind) ==
    CASE kind = "text" ->
           PrimaryHeaderBytes(TextFile, PRIMARY_LEN + 4, 8) \o <<4, 0, 4, 65>>
      [] kind = "overlong" ->
           PrimaryHeaderBytes(TextFile, PRIMARY_LEN + 30, 8) \o <<4, 0, 30, 65>>
      [] kind = "short" -> PrimaryHeaderBytes(TextFile, PRIMARY_LEN + 30, 8)
      [] kind = "unknown" ->
           PrimaryHeaderBytes(TextFile, PRIMARY_LEN + 4, 8) \o <<7, 0, 4, 0>>

\* user data of a TP_PDU of a file of one kind
BodyOf(kind, flag, id) ==
    IF flag \in {1, 3} THEN Zeros(GARBAGE_LEN) \o HeaderSet(kind) \o <<id>>
    ELSE <<id>>

PutHdr(v, apid, flag, kind, room) ==
    /\ nextId <= MaxSent
    /\ PutBytes(v, apid, flag, TRUE, room,
                Framed(apid, flag, txSeq[apid], WithCrc(BodyOf(kind, flag, nextId), TRUE)))

NextHdr ==
    \/ \E v \in StreamVCs, apid \in APIDs, flag \in 0..3, kind \in Kinds,
          room \in FewRooms : PutHdr(v, apid, flag, kind, room)
    \/ \E v \in StreamVCs, long \in BOOLEAN : Deliver(v, long)

SpecHdr == Init /\ [][NextHdr]_vars

-----------------------------------------------------------------------------
(* TP_PDU::process_bytes on its own: the bytes of one TP_PDU, followed by    *)
(* the first bytes of the next, are fed to a new TP_PDU in chunks of any     *)
(* sizes, for length fields at both ends of the range and beyond it          *)

\* the values of the 16-bit length field of the TP_PDUs fed
LengthFields == {0, 1, 2, 4, 8191, 8192, 65535}

\* the sizes of the chunks, besides the chunk that holds all that is left
Chunks == {1, 2, 5, 6, 7}

\* the first bytes of the TP_PDU that follows in the frame
NextBytes == <<7, 7, 7>>

\* a TP_PDU with the length field f, cut short when f is beyond the range
PduBytes(f) ==
    <<0, 100, 192, 0, f \div 256, f % 256>>
       \o [i \in 1..(IF f < TP_MAX_LEN THEN f + 1 ELSE 4) |-> (i % 250) + 1]
       \o NextBytes

InitPdu ==
    /\ Start
    /\ \E f \in LengthFields :
          calc = [bytes |-> PduBytes(f), pdu |-> TP_PDU_new(1), ok |-> TRUE,
                  offered |-> 0, used |-> 0, feeds |-> 0,
                  pre |-> TP_PDU_new(1), n |-> 0, ret |-> 0]

\* the caller's state after process_bytes, given n bytes, returned r
Fed(n, r) ==
    calc' = [calc EXCEPT !.pre = calc.pdu, !.n = n, !.ret = r.used,
                         !.pdu = IF r.ok THEN r.pdu ELSE @,
                         !.ok = r.ok,
                         !.offered = calc.used + n,
                         !.used = @ + r.used,
                         !.feeds = @ + 1]

\* the caller hands the next n bytes to process_bytes, as process_vcdu does
\* with what a frame holds, until the TP_PDU is complete
Feed(n) ==
    /\ calc.ok
    /\ calc.feeds < MaxFeeds
    /\ ~data_complete(calc.pdu)
    /\ n >= 1
    /\ calc.used + n <= Len(calc.bytes)
    /\ Fed(n, process_bytes(calc.pdu, SubSeq(calc.bytes, calc.used + 1, calc.used + n)))
    /\ UNCHANGED <<vcs, stats, handled, aborted, lastRun, wire, pdus, txCounter,
                   txSeq, nextId, refOpen, expected, badIds, nFrames, nLost,
                   fullVcs, fullHandled, now, calls, driver>>

FeedRest == Feed(Len(calc.bytes) - calc.used)

NextPdu ==
    \/ \E n \in Chunks : Feed(n)
    \/ FeedRest

SpecPdu == InitPdu /\ [][NextPdu]_vars

-----------------------------------------------------------------------------
(* A downlink on which the length field of a TP_PDU can be wrong: the        *)
(* TP_PDU is split over two frames, and the pointer of the second frame,     *)
(* which the sender computes from the bytes it sent, is not where the        *)
(* receiver expects the TP_PDU to end                                        *)

\* the bytes of the TP_PDU in the frame it starts in: inside and past its header
SplitRooms == {3, 7}

\* by how much the length field is off
LengthErrors == {-1, 1}

ContinuationFlags == {0, 2}

\* a TP_PDU whose length field declares off bytes more than it has
MislabelledPdu(apid, flag, seq, id, off) ==
    TP_header(apid, flag, seq, Len(WithCrc(Body(flag, id), TRUE)) + off)
       \o WithCrc(Body(flag, id), TRUE)

PutMislabelled(v, apid, flag, room, off) ==
    /\ nextId <= MaxSent
    /\ PutBytes(v, apid, flag, TRUE, room,
                MislabelledPdu(apid, flag, txSeq[apid], nextId, off))

NextPtr ==
    \/ \E v \in StreamVCs, apid \in APIDs, flag \in 0..3, room \in Rooms :
          PutValid(v, apid, flag, room)
    \/ \E v \in StreamVCs, apid \in APIDs, flag \in ContinuationFlags,
          room \in SplitRooms, off \in LengthErrors :
          PutMislabelled(v, apid, flag, room, off)
    \/ \E v \in StreamVCs, long \in BOOLEAN : Deliver(v, long)

SpecPtr == Init /\ [][NextPtr]_vars

-----------------------------------------------------------------------------
(* A downlink on which TP_PDUs of a file are lost without a frame being      *)
(* lost: the receiver sees their sequence counts skipped                     *)

\* how many TP_PDUs of an APID are lost in a row
Skips == {1, 3}

\* k TP_PDUs of the APID never reach the receiver
LosePdu(apid, k) ==
    /\ ~aborted
    /\ nLost < MaxLost
    /\ nextId <= MaxSent
    /\ txSeq' = [txSeq EXCEPT ![apid] = (@ + k) % SeqModulus]
    /\ nLost' = nLost + 1
    /\ UNCHANGED <<vcs, stats, handled, aborted, lastRun, wire, pdus, txCounter,
                   nextId, refOpen, expected, badIds, nFrames, fullVcs,
                   fullHandled, calc, now, calls, driver>>

NextSeq ==
    \/ \E v \in StreamVCs, apid \in APIDs, flag \in 0..3, room \in Rooms :
          PutValid(v, apid, flag, room)
    \/ \E apid \in APIDs, k \in Skips : LosePdu(apid, k)
    \/ \E v \in StreamVCs, long \in BOOLEAN : Deliver(v, long)

SpecSeq == Init /\ [][NextSeq]_vars

-----------------------------------------------------------------------------
(* The handler list of the driver loop: every LRIT that App::process         *)
(* returns is passed to the handlers; what a handler returns depends on the  *)
(* file and on the disk, and is chosen freely here                           *)

\* the handlers pushed by main, in order
handlers == <<"TextHandler", "ImageHandler", "DcsHandler", "DebugHandler">>

\* what Handler::handle returns: Ok(()), Err(Skipped) or another error
HandlerResults == {"Ok", "Skipped", "Io"}

\* what the four handlers return for one file: a handler skips the files
\* of the other handlers, and writing to the disk can fail
ResultRows ==
    {<<"Ok", "Skipped", "Skipped", "Ok">>,
     <<"Io", "Skipped", "Skipped", "Ok">>,
     <<"Skipped", "Ok", "Skipped", "Io">>,
     <<"Skipped", "Io", "Skipped", "Ok">>,
     <<"Skipped", "Skipped", "Io", "Io">>}

\* a faulty variant that leaves the handler loop at the first error
handler_calls_until_error(lrit, res) ==
    [h \in 1..SetMin({Len(handlers)}
                        \cup {k \in 1..Len(handlers) : res[k] \notin {"Ok", "Skipped"}}) |->
        [handler |-> handlers[h], lrit |-> lrit, result |-> res[h]]]

\* the inner loop of the network arm: the LRIT is passed to each handler
\* in turn, whatever the handlers before it returned
handler_calls(lrit, res) ==
    [h \in 1..Len(handlers) |->
        [handler |-> handlers[h], lrit |-> lrit, result |-> res[h]]]

\* the outer loop of the network arm: one turn for each LRIT returned
RECURSIVE lrit_calls(_, _)
lrit_calls(lrits, res) ==
    IF lrits = << >> THEN << >>
    ELSE handler_calls(Head(lrits), res) \o lrit_calls(Tail(lrits), res)

\* the network arm of the driver loop with its handlers: handler h returns
\* res[h] for the LRITs of this frame
DeliverHandlers(v, long) ==
    /\ ~aborted
    /\ nFrames < MaxFrames
    /\ CanCut(v, long)
    /\ Receive(v, Cut(v, long))
    /\ \E res \in ResultRows :
          calls' = calls \o lrit_calls(Drop(handled', Len(handled)), res)
    /\ UNCHANGED <<fullVcs, fullHandled, driver>>

NextHandlers ==
    \/ \E v \in StreamVCs, apid \in APIDs, flag \in 0..3, room \in FewRooms :
          PutValid(v, apid, flag, room)
    \/ \E v \in StreamVCs, long \in BOOLEAN : DeliverHandlers(v, long)

SpecHandlers == Init /\ [][NextHandlers]_vars

-----------------------------------------------------------------------------
(* calc_crc16 and calc_crc32 on their own: the two checksums of a message    *)

\* the bytes of the messages
CrcBytes == {0, 1, 128, 255}

\* the ASCII string "123456789"
CheckString == <<49, 50, 51, 52, 53, 54, 55, 56, 57>>

CrcInputs == {CheckString} \cup UNION {[1..n -> CrcBytes] : n \in 0..MaxMsg}

InitCrc ==
    /\ Start
    /\ \E d \in CrcInputs : calc = [data |-> d, crc16 |-> None, crc32 |-> None]

ApplyCrc16 ==
    /\ calc.crc16 = None
    /\ calc' = [calc EXCEPT !.crc16 = Some(calc_crc16(calc.data))]
    /\ UNCHANGED <<vcs, stats, handled, aborted, lastRun, wire, pdus, txCounter,
                   txSeq, nextId, refOpen, expected, badIds, nFrames, nLost,
                   fullVcs, fullHandled, now, calls, driver>>

ApplyCrc32 ==
    /\ calc.crc32 = None
    /\ calc' = [calc EXCEPT !.crc32 = Some(calc_crc32(calc.data))]
    /\ UNCHANGED <<vcs, stats, handled, aborted, lastRun, wire, pdus, txCounter,
                   txSeq, nextId, refOpen, expected, badIds, nFrames, nLost,
                   fullVcs, fullHandled, now, calls, driver>>

NextCrc == ApplyCrc16 \/ ApplyCrc32

SpecCrc == InitCrc /\ [][NextCrc]_vars

-----------------------------------------------------------------------------
(* ParsedEmwinName::parse on its own: names of the documented form, with     *)
(* the headings of the repository's tests and other headings                 *)

\* T1T2AAii, CCCC and the day and time of the names of the tests
TestStems ==
    {<<"A", "S", "U", "S", "4", "1", "K", "P", "H", "I", "0", "4", "1", "8", "1", "2">>,
     <<"F", "T", "U", "S", "8", "0", "K", "W", "B", "C", "0", "4", "0", "5", "2", "1">>,
     <<"S", "X", "A", "K", "5", "8", "P", "A", "C", "R", "0", "5", "1", "7", "3", "6">>}

\* an addressed message, a forecast of a kind table B1 does not list, an
\* area table C1 does not list, a data type table A does not list
OtherStems ==
    {<<"B", "M", "U", "S", "4", "1", "K", "P", "H", "I", "0", "4", "1", "8", "1", "2">>,
     <<"F", "Y", "U", "S", "4", "1", "K", "P", "H", "I", "0", "4", "1", "8", "1", "2">>,
     <<"A", "S", "Z", "Z", "4", "1", "K", "P", "H", "I", "0", "4", "1", "8", "1", "2">>,
     <<"G", "A", "U", "S", "4", "1", "K", "P", "H", "I", "0", "4", "1", "8", "1", "2">>}

NameDates == {<<"2", "0", "2", "2", "0", "5", "0", "4", "1", "8", "1", "3", "0", "3">>, <<"2",
        "0", "2", "4", "0", "2", "2", "9", "2", "3", "5", "9", "5", "9">>}

NameSequences == {<<"8", "8", "1", "3", "6", "7">>, <<"0", "0", "0", "0", "0", "1">>}

NamePriorities == {"1", "2", "3", "4"}

LegacyNames == {<<"R", "W", "R", "P", "H", "I", "P", "A">>, <<"T", "A", "F">>}

EmwinName(pflag, stem, date, seq, prio, legacy) ==
    <<pflag, "_">> \o stem \o <<"_", "C", "_", "K", "W", "I", "N", "_">> \o date
       \o <<"_">> \o seq \o <<"-", prio, "-">> \o legacy

InitName ==
    /\ Start
    /\ \E pflag \in {"A", "Z"}, stem \in TestStems \cup OtherStems, date \in NameDates,
          seq \in NameSequences, prio \in NamePriorities, legacy \in LegacyNames :
          calc = [name |-> EmwinName(pflag, stem, date, seq, prio, legacy),
                  stem |-> stem, out |-> None]

ApplyParse ==
    /\ calc.out = None
    /\ calc' = [calc EXCEPT !.out = Some(ParsedEmwinName_parse(calc.name))]
    /\ UNCHANGED <<vcs, stats, handled, aborted, lastRun, wire, pdus, txCounter,
                   txSeq, nextId, refOpen, expected, badIds, nFrames, nLost,
                   fullVcs, fullHandled, now, calls, driver>>

NextName == ApplyParse

SpecName == InitName /\ [][NextName]_vars

-----------------------------------------------------------------------------
(* Rice-compressed image files: the header set of an image file is a         *)
(* primary header, an image structure record and a rice compression record;  *)
(* one file's first TP_PDU carries all of it, the other file's only the      *)
(* first two, the rice record coming in its second TP_PDU                    *)

ImageFile == 0

\* the image structure record: 8 bits per pixel, 2 columns, 2 lines, compressed
ImageStructure == <<1, 0, 9, 8, 0, 2, 0, 2, 1>>

\* the rice compression record: flags, pixels per block, scanlines per packet
RiceRecord == <<131, 0, 7, 0, 49, 16, 1>>

ImagePrimary ==
    PrimaryHeaderBytes(ImageFile, PRIMARY_LEN + Len(ImageStructure) + Len(RiceRecord), 32)

\* user data of the TP_PDUs of an image file
RiceBody(part, id) ==
    CASE part = "whole" -> Zeros(GARBAGE_LEN) \o ImagePrimary \o ImageStructure \o RiceRecord
      [] part = "head" -> Zeros(GARBAGE_LEN) \o ImagePrimary \o ImageStructure
      [] part = "tail" -> RiceRecord
      [] OTHER -> <<id>>

\* the TP_PDUs of the two files, in the order they are sent
RiceScript ==
    <<[apid |-> 100, flag |-> 1, part |-> "head"],
      [apid |-> 101, flag |-> 1, part |-> "whole"],
      [apid |-> 100, flag |-> 0, part |-> "tail"],
      [apid |-> 101, flag |-> 0, part |-> "line"],
      [apid |-> 100, flag |-> 0, part |-> "line"],
      [apid |-> 101, flag |-> 2, part |-> "line"],
      [apid |-> 100, flag |-> 2, part |-> "line"]>>

PutRice(v, room) ==
    /\ nextId <= Len(RiceScript)
    /\ PutBytes(v, RiceScript[nextId].apid, RiceScript[nextId].flag, TRUE, room,
                Framed(RiceScript[nextId].apid, RiceScript[nextId].flag,
                       txSeq[RiceScript[nextId].apid],
                       WithCrc(RiceBody(RiceScript[nextId].part, nextId), TRUE)))

NextRice ==
    \/ \E v \in StreamVCs, room \in Rooms : PutRice(v, room)
    \/ \E v \in StreamVCs, long \in BOOLEAN : Deliver(v, long)

SpecRice == Init /\ [][NextRice]_vars

-----------------------------------------------------------------------------
(* The two-frame segmented image: an 8-bit image of 200 columns and 2 lines, *)
(* rice-compressed, one compressed scanline per TP_PDU.  Either the first    *)
(* TP_PDU carries the header set and the first scanline and a second one the *)
(* second scanline, or the first TP_PDU carries the header set only and two  *)
(* more carry the scanlines                                                  *)

\* the image structure record: 8 bits per pixel, 200 columns, 2 lines, compressed
SegmentStructure == <<1, 0, 9, 8, 0, 200, 0, 2, 1>>

\* the primary header: an image file, 32 bytes of headers, 3200 bits of data
SegmentPrimary ==
    <<0, 0, PRIMARY_LEN, ImageFile, 0, 0, 0,
      PRIMARY_LEN + Len(SegmentStructure) + Len(RiceRecord),
      0, 0, 0, 0, 0, 0, 12, 128>>

\* one compressed scanline
Scanline(id) == <<id, 2 * id, 3 * id, 4 * id, 5 * id>>

SegmentBody(part, id) ==
    CASE part = "both" ->
            Zeros(GARBAGE_LEN) \o SegmentPrimary \o SegmentStructure \o RiceRecord
               \o Scanline(id)
      [] part = "headers" ->
            Zeros(GARBAGE_LEN) \o SegmentPrimary \o SegmentStructure \o RiceRecord
      [] OTHER -> Scanline(id)

\* the TP_PDUs of the image, sent in two ways
SegmentScripts ==
    [two |-> <<[flag |-> 1, part |-> "both"], [flag |-> 2, part |-> "line"]>>,
     three |-> <<[flag |-> 1, part |-> "headers"], [flag |-> 0, part |-> "line"],
                 [flag |-> 2, part |-> "line"]>>]

SegmentScript == SegmentScripts[calc.script]

InitSegment ==
    /\ Start
    /\ \E s \in DOMAIN SegmentScripts : calc = [script |-> s]

PutSegment(v, apid, room) ==
    /\ nextId <= Len(SegmentScript)
    /\ PutBytes(v, apid, SegmentScript[nextId].flag, TRUE, room,
                Framed(apid, SegmentScript[nextId].flag, txSeq[apid],
                       WithCrc(SegmentBody(SegmentScript[nextId].part, nextId), TRUE)))

NextSegment ==
    \/ \E v \in StreamVCs, apid \in APIDs, room \in Rooms : PutSegment(v, apid, room)
    \/ \E v \in StreamVCs, long \in BOOLEAN : Deliver(v, long)

SpecSegment == InitSegment /\ [][NextSegment]_vars

-----------------------------------------------------------------------------
(* Stats::record on its own: statistics of every kind are recorded while   *)
(* the clock advances, by less than a second, by a second or by more         *)

\* the VCIDs and the APID of the recorded statistics
StatVCs == {1, FILL_VCID}

StatAPIDs == {100}

\* milliseconds that pass before a record
Delays == {0, 600, 1000}

\* milliseconds between the two clock reads of one record
ReadGaps == {0, 1}

InitStats ==
    /\ Start
    /\ calc = [log |-> << >>, pre |-> Stats_new]

\* the statistics become st at time t, and the record is logged
Recorded(st, t, entry) ==
    /\ stats' = st
    /\ now' = t
    /\ calc' = [log |-> Append(calc.log, entry), pre |-> stats]
    /\ UNCHANGED <<vcs, handled, aborted, lastRun, wire, pdus, txCounter, txSeq,
                   nextId, refOpen, expected, badIds, nFrames, nLost, fullVcs,
                   fullHandled, calls, driver>>

\* the clock when a VCDUPacket record whose test of the front bucket was
\* made at t returns
RecordEnd(t, gap) ==
    IF Len(stats.vcdu_packets) > 0 /\ t - stats.vcdu_packets[1].inst < 1000
    THEN t ELSE t + gap

RecordVCDUPacket(id, d, gap) ==
    /\ Len(calc.log) < MaxRecords
    /\ Recorded(record_VCDUPacket_at(stats, id, now + d, RecordEnd(now + d, gap)),
                RecordEnd(now + d, gap),
                [stat |-> "VCDUPacket", id |-> id, t |-> now + d,
                 done |-> RecordEnd(now + d, gap)])

RecordPacket ==
    /\ Len(calc.log) < MaxRecords
    /\ Recorded(record_Packet(stats), now,
                [stat |-> "Packet", id |-> 0, t |-> now, done |-> now])

RecordDiscardedDataPacket ==
    /\ Len(calc.log) < MaxRecords
    /\ Recorded(record_DiscardedDataPacket(stats), now,
                [stat |-> "DiscardedDataPacket", id |-> 0, t |-> now, done |-> now])

RecordAPID(id) ==
    /\ Len(calc.log) < MaxRecords
    /\ Recorded(record_APID(stats, id), now,
                [stat |-> "APID", id |-> id, t |-> now, done |-> now])

NextStats ==
    \/ \E id \in StatVCs, d \in Delays, gap \in ReadGaps : RecordVCDUPacket(id, d, gap)
    \/ RecordPacket
    \/ RecordDiscardedDataPacket
    \/ \E id \in StatAPIDs : RecordAPID(id)

SpecStats == InitStats /\ [][NextStats]_vars

-----------------------------------------------------------------------------
(* main: the network reader thread, the keyboard thread and the driver     *)
(* loop, joined by three channels.  The sender's frames are the messages of  *)
(* the socket, some of them shorter or longer than a frame.  The loop's      *)
(* timeout arm only redraws the screen, which is not modelled                *)

\* a faulty variant of the reader that leaves out a message of another size
\* and reads on
reader_turn_skips(buf) ==
    IF Len(buf) # VCDU_LEN THEN [sent |-> None, returned |-> FALSE]
    ELSE [sent |-> Some(Take(buf, Len(buf))), returned |-> FALSE]

\* one turn of the reader thread's loop, for the message buf read from the
\* socket: what it sends to the loop, and whether the thread returns
reader_turn(buf) ==
    IF Len(buf) # VCDU_LEN THEN [sent |-> None, returned |-> TRUE]
    ELSE [sent |-> Some(Take(buf, Len(buf))), returned |-> FALSE]

\* a faulty variant that leaves the loop on q only
is_quit_q_only(key) == key = "q"

\* the keys on which the keyboard arm breaks out of the loop
is_quit(key) == key \in {"Esc", "q", "Ctrl-c"}

\* App::info: push the message, keep the most recent ones
App_info(messages, msg) ==
    IF Len(messages) + 1 > KeptMessages
    THEN Drop(Append(messages, msg), Len(messages) + 1 - KeptMessages)
    ELSE Append(messages, msg)

\* the messages the network arm logs for the LRITs of one frame: a warning
\* for each handler that failed, and the headers of a file of another type
\* than image, text or DCS
RECURSIVE lrit_logs(_, _)
lrit_logs(lrits, res) ==
    IF lrits = << >> THEN << >>
    ELSE [k \in 1..Cardinality({h \in 1..Len(handlers) : res[h] \notin {"Ok", "Skipped"}})
             |-> "message"]
         \o (IF Head(lrits).headers.primary.filetype_code \notin {0, 2, 130}
             THEN <<"message">> ELSE << >>)
         \o lrit_logs(Tail(lrits), res)

\* the sizes of the messages of the socket
SocketSizes == {VCDU_LEN, VCDU_LEN - 1, VCDU_LEN + 1}

\* the keys of the keyboard
Keys == {"q", "Esc", "Ctrl-c", "c", "x"}

\* what the handlers return for the files of one frame
LoopRows == {<<"Ok", "Skipped", "Skipped", "Ok">>, <<"Io", "Skipped", "Skipped", "Ok">>}

\* how many messages the core logs while it processes one frame (its warn!
\* and info! calls depend on the frame; the number is chosen freely here)
CoreLogs == {0, 1}

Resized(vcdu, size) ==
    IF size <= Len(vcdu) THEN Take(vcdu, size) ELSE vcdu \o Zeros(size - Len(vcdu))

MainRuns == driver.loop = "running" /\ ~aborted

\* the reader thread read buf, the frame f of the sender resized, from the
\* socket and made the turn r
ReaderTurned(v, f, buf, r) ==
    /\ wire' = [wire EXCEPT ![v] = f.rest]
    /\ pdus' = [pdus EXCEPT ![v] = Remaining(f.pdus, FALSE)]
    /\ txCounter' = [txCounter EXCEPT ![v] = (@ + 1) % CounterModulus]
    /\ nFrames' = nFrames + 1
    /\ driver' = [driver EXCEPT
                    !.net = IF IsSome(r.sent)
                            THEN Append(@, [k |-> nFrames + 1, data |-> Get(r.sent),
                                            done |-> Completed(f.pdus)])
                            ELSE @,
                    !.reader = IF r.returned THEN "returned" ELSE @,
                    !.read = Append(@, Len(buf))]
    /\ UNCHANGED <<vcs, stats, handled, aborted, lastRun, txSeq, nextId, refOpen,
                   expected, badIds, nLost, fullVcs, fullHandled, calc, now, calls>>

ReaderRead(v, long, size) ==
    /\ MainRuns
    /\ driver.reader = "reading"
    /\ nFrames < MaxFrames
    /\ CanCut(v, long)
    /\ ReaderTurned(v, Cut(v, long), Resized(Cut(v, long).vcdu, size),
                    reader_turn(Resized(Cut(v, long).vcdu, size)))

\* the network arm of the loop for the message m, after App::process
\* returned r
NetArm(m, r, ref) ==
    /\ lastRun' = [vcdu |-> Take(m.data, VCDU_LEN), pre |-> vcs, stats |-> stats,
                   events |-> r.events, lrits |-> r.lrits, ok |-> r.ok,
                   n |-> Len(driver.taken) + 1]
    /\ aborted' = ~r.ok
    /\ refOpen' = [refOpen EXCEPT ![VCID(m.data)] = ref.open]
    /\ expected' = ref.done
    /\ IF r.ok
       THEN /\ vcs' = r.vcs
            /\ stats' = r.stats
            /\ handled' = handled \o r.lrits
            /\ \E res \in LoopRows, n \in CoreLogs :
                  /\ calls' = calls \o lrit_calls(r.lrits, res)
                  /\ driver' = [driver EXCEPT
                                  !.net = Tail(@),
                                  !.taken = Append(@, m.k),
                                  !.log = @ \o [k \in 1..n |-> "message"]
                                            \o lrit_logs(r.lrits, res)]
       ELSE /\ driver' = [driver EXCEPT !.net = Tail(@), !.taken = Append(@, m.k)]
            /\ UNCHANGED <<vcs, stats, handled, calls>>
    /\ UNCHANGED <<wire, pdus, txCounter, txSeq, nextId, badIds, nFrames, nLost,
                   fullVcs, fullHandled, calc, now>>

LoopNet ==
    /\ MainRuns
    /\ driver.net # << >>
    /\ NetArm(Head(driver.net),
              App_process(vcs, stats, now, Take(Head(driver.net).data, VCDU_LEN)),
              RefRoute([open |-> refOpen[VCID(Head(driver.net).data)],
                        done |-> expected],
                       Head(driver.net).done))

\* the network arm when the reader has returned and its queue is empty:
\* recv gives an error, which data.unwrap() turns into a panic
LoopNetClosed ==
    /\ MainRuns
    /\ driver.net = << >>
    /\ driver.reader = "returned"
    /\ aborted' = TRUE
    /\ UNCHANGED <<vcs, stats, handled, lastRun, wire, pdus, txCounter, txSeq,
                   nextId, refOpen, expected, badIds, nFrames, nLost, fullVcs,
                   fullHandled, calc, now, calls, driver>>

\* the keyboard thread sends a key
KbdRead(key) ==
    /\ MainRuns
    /\ Len(driver.kbd) + Len(driver.keys) < MaxKeys
    /\ driver' = [driver EXCEPT !.kbd = Append(@, key)]
    /\ UNCHANGED <<vcs, stats, handled, aborted, lastRun, wire, pdus, txCounter,
                   txSeq, nextId, refOpen, expected, badIds, nFrames, nLost,
                   fullVcs, fullHandled, calc, now, calls>>

\* the keyboard arm of the loop
LoopKbd ==
    /\ MainRuns
    /\ driver.kbd # << >>
    /\ LET msg == Head(driver.kbd) IN
       driver' = [driver EXCEPT
                    !.kbd = Tail(@),
                    !.keys = Append(@, msg),
                    !.loop = IF is_quit(msg) THEN "exited" ELSE @,
                    !.messages = IF ~is_quit(msg) /\ msg = "c" THEN << >> ELSE @,
                    !.log = IF ~is_quit(msg) /\ msg # "c"
                            THEN Append(@, "message") ELSE @]
    /\ UNCHANGED <<vcs, stats, handled, aborted, lastRun, wire, pdus, txCounter,
                   txSeq, nextId, refOpen, expected, badIds, nFrames, nLost,
                   fullVcs, fullHandled, calc, now, calls>>

\* the log arm of the loop
LoopLog ==
    /\ MainRuns
    /\ driver.log # << >>
    /\ driver' = [driver EXCEPT !.log = Tail(@),
                                !.messages = App_info(@, Head(driver.log))]
    /\ UNCHANGED <<vcs, stats, handled, aborted, lastRun, wire, pdus, txCounter,
                   txSeq, nextId, refOpen, expected, badIds, nFrames, nLost,
                   fullVcs, fullHandled, calc, now, calls>>

\* the sender's TP_PDUs: a file in one TP_PDU, then the first TP_PDU of a
\* file that stays unfinished
LoopScript == <<3, 1>>

PutLoop(v, apid, room) ==
    /\ nextId <= Len(LoopScript)
    /\ PutPdu(v, apid, LoopScript[nextId], TRUE, room)

\* the reader thread and the network and log arms of the loop, on a socket
\* whose messages have any of the sizes
NextReader ==
    \/ \E v \in StreamVCs, apid \in APIDs, room \in FewRooms : PutLoop(v, apid, room)
    \/ \E v \in StreamVCs, long \in BOOLEAN, size \in SocketSizes :
          ReaderRead(v, long, size)
    \/ LoopNet
    \/ LoopNetClosed
    \/ LoopLog

SpecReader == Init /\ [][NextReader]_vars

\* the three arms of the loop and the threads that feed them, on a socket
\* whose messages are frames
NextLoop ==
    \/ \E v \in StreamVCs, apid \in APIDs, room \in FewRooms : PutLoop(v, apid, room)
    \/ \E v \in StreamVCs, long \in BOOLEAN : ReaderRead(v, long, VCDU_LEN)
    \/ LoopNet
    \/ \E key \in Keys : KbdRead(key)
    \/ LoopKbd
    \/ LoopLog

SpecLoop == Init /\ [][NextLoop]_vars

-----------------------------------------------------------------------------
(* DcsBlock::parse on its own: payloads of a few blocks, well-formed, of    *)
(* an unknown id, with an unexpected baud rate or with a wrong CRC,          *)
(* followed by the four bytes of the file CRC                                *)

\* a carrier time in BCD: day 123 of 2022, 10:00:00.000
BcdTime == <<0, 0, 0, 0, 49, 18, 34>>

\* the address of the platform, 0x10CE1234 in little-endian order
DcpAddress == <<52, 18, 206, 16>>

\* a block of id 1 with one byte of data, without its CRC; tmp holds the
\* baud rate bits
BlockBody(tmp, seq) ==
    <<1, DCS_BLOCK_OVERHEAD + 1, 0, seq, 0, 0, tmp, 0>> \o DcpAddress
       \o BcdTime \o BcdTime \o <<0, 0, 0, 0, 0, 0, 0, 0, 0, 85, 80, 0, 0>> \o <<seq>>

U16LEBytes(x) == <<x % 256, x \div 256>>

BlockKinds == {"good", "unknown", "baud", "crc"}

Block(kind, seq) ==
    CASE kind = "good" ->
            BlockBody(2, seq) \o U16LEBytes(calc_crc16(BlockBody(2, seq)))
      [] kind = "baud" ->
            BlockBody(0, seq) \o U16LEBytes(calc_crc16(BlockBody(0, seq)))
      [] kind = "crc" ->
            BlockBody(2, seq)
               \o U16LEBytes((calc_crc16(BlockBody(2, seq)) + 1) % 65536)
      [] OTHER -> <<2, 3, 0>>

RECURSIVE BlockBytes(_, _)
BlockBytes(kinds, seq) ==
    IF kinds = << >> THEN << >>
    ELSE Block(Head(kinds), seq) \o BlockBytes(Tail(kinds), seq + 1)

KindSeqs(n) == UNION {[1..k -> BlockKinds] : k \in 0..n}

InitBlocks ==
    /\ Start
    /\ \E kinds \in KindSeqs(MaxBlocks), checks \in BOOLEAN :
          calc = [kinds |-> kinds, checks |-> checks, out |-> None]

ApplyBlocks ==
    /\ calc.out = None
    /\ calc' = [calc EXCEPT
                  !.out = Some(DcsBlock_parse(BlockBytes(calc.kinds, 1) \o Zeros(4),
                                              calc.checks))]
    /\ UNCHANGED <<vcs, stats, handled, aborted, lastRun, wire, pdus, txCounter,
                   txSeq, nextId, refOpen, expected, badIds, nFrames, nLost,
                   fullVcs, fullHandled, now, calls, driver>>

NextBlocks == ApplyBlocks

SpecBlocks == InitBlocks /\ [][NextBlocks]_vars

-----------------------------------------------------------------------------
(* DcsHandler::handle on its own: files of type 130 and others, with and    *)
(* without the NOAA and annotation headers, whose DCS header gives the       *)
(* length of the data, another length or no number                           *)

U32LEBytes(c) == U16LEBytes(c[2]) \o U16LEBytes(c[1])

\* eight ASCII digits
Ascii8(n) ==
    <<48 + ((n \div 10000000) % 10), 48 + ((n \div 1000000) % 10),
      48 + ((n \div 100000) % 10), 48 + ((n \div 10000) % 10),
      48 + ((n \div 1000) % 10), 48 + ((n \div 100) % 10),
      48 + ((n \div 10) % 10), 48 + (n % 10)>>

\* the length field of the header: the length of the data plus delta, or
\* text that is no number
DcsLengthFields == {<<0, TRUE>>, <<-1, TRUE>>, <<4, TRUE>>, <<0, FALSE>>}

LengthField(total, field) ==
    IF field[2] THEN Ascii8(total + field[1]) ELSE <<32, 32, 32, 32, 32, 110, 47, 97>>

PayloadTypes == {<<68, 67, 83, 72>>, <<68, 67, 83, 32>>}

WithCrc32(bytes) == bytes \o U32LEBytes(calc_crc32(bytes))

\* a DCS file: the 64-byte header with its CRC, the blocks, the file CRC
DcsFile(field, type, blocks) ==
    WithCrc32(
       WithCrc32(<<68, 67, 83>> \o [i \in 1..29 |-> 32]
                    \o LengthField(DCS_HEADER_LEN + Len(blocks) + 4, field)
                    \o <<85, 80, 32, 32>> \o type \o Zeros(12))
          \o blocks)

DcsKinds == {<< >>, <<"good">>, <<"good", "crc">>}

DcsLrit(code, noaa, annotation, bytes) ==
    [headers |-> [primary |-> [filetype_code |-> code], noaa |-> noaa,
                  annotation |-> annotation],
     data |-> bytes]

InitDcs ==
    /\ Start
    /\ \E code \in {130, TextFile},
          noaa \in {None, Some([product_id |-> 8]), Some([product_id |-> 9])},
          annotation \in {None, Some([text |-> <<100, 46, 108, 114, 105, 116>>])},
          field \in DcsLengthFields,
          type \in PayloadTypes,
          kinds \in DcsKinds,
          short \in BOOLEAN,
          disk \in BOOLEAN :
       calc = [lrit |-> DcsLrit(code, noaa, annotation,
                                IF short
                                THEN Take(DcsFile(field, type, BlockBytes(kinds, 1)), 63)
                                ELSE DcsFile(field, type, BlockBytes(kinds, 1))),
               disk |-> disk, out |-> None]

\* the driver loop calls the DCS handler for the file; a panic ends the
\* program
ApplyHandle(checks) ==
    /\ calc.out = None
    /\ ~aborted
    /\ calc' = [calc EXCEPT !.out = Some(DcsHandler_handle(calc.lrit, calc.disk, checks))]
    /\ aborted' = (DcsHandler_handle(calc.lrit, calc.disk, checks) = "Panic")
    /\ UNCHANGED <<vcs, stats, handled, lastRun, wire, pdus, txCounter,
                   txSeq, nextId, refOpen, expected, badIds, nFrames, nLost,
                   fullVcs, fullHandled, now, calls, driver>>

NextDcs == \E checks \in BOOLEAN : ApplyHandle(checks)

SpecDcs == InitDcs /\ [][NextDcs]_vars

-----------------------------------------------------------------------------
(* Properties *)

Events == lastRun.events

IsData(e) == e.apid # FILL_APID

\* the tag of the TP_PDU of a history entry: the last byte before its CRC
EvTag(e) == e.pdu.data[Len(e.pdu.data) - 2]

\* the sender corrupted the CRC of this TP_PDU
EvBad(e) == EvTag(e) \in badIds

\* the CRC rule of the TP_PDU format, computed from the bytes
CrcHolds(p) ==
    /\ Len(p.data) >= 2
    /\ calc_crc16(Take(p.data, Len(p.data) - 2)) = U16(p.data, Len(p.data) - 1)

\* the APIDs other than that of e keep their sessions
OthersKept(e) ==
    /\ DOMAIN e.post \ {e.apid} = DOMAIN e.pre \ {e.apid}
    /\ \A b \in DOMAIN e.pre \ {e.apid} : e.post[b] = e.pre[b]

\* the files of the LRITs handed out: each named by the tag of its opener
HandledFiles == [i \in 1..Len(handled) |-> handled[i].data[1]]

\* C1: on a stream whose VCDU counters all advance by one (every stream of
\* Spec), the LRITs returned so far are, in order, exactly the files that
\* received their terminator (flag 3, or flag 2 with the file open), where
\* CRC-failed TP_PDUs count as dropped.
C1_LritsAreTerminatedSessions == HandledFiles = expected

\* the same on streams in which no CRC is corrupted
C1_OnCrcValidStreams == badIds = {} => HandledFiles = expected

Integrated(e) ==
    \/ e.flags \in {1, 3}
    \/ /\ e.flags = 0
       /\ e.apid \in DOMAIN e.pre
       /\ e.post[e.apid] # e.pre[e.apid]
    \/ /\ e.flags = 2
       /\ e.apid \in DOMAIN e.pre
       /\ e.lrit # Some(Session_finish(e.pre[e.apid]).lrit)

\* C3: every TP_PDU integrated into a session (as opener or continuation)
\* satisfies the CRC rule, and no user-data byte of a TP_PDU sent with a
\* wrong CRC is in a session buffer or in an LRIT handed out.
C3_OnlyCrcValidBytes ==
    /\ \A i \in DOMAIN Events :
          (IsData(Events[i]) /\ Events[i].ok /\ Integrated(Events[i]))
             => CrcHolds(Events[i].pdu)
    /\ \A v \in DOMAIN vcs : \A a \in DOMAIN vcs[v].apid_map :
          \A k \in (PRIMARY_LEN + 1)..Len(vcs[v].apid_map[a].bytes) :
             vcs[v].apid_map[a].bytes[k] \notin badIds
    /\ \A i \in DOMAIN handled : \A k \in DOMAIN handled[i].data :
          handled[i].data[k] \notin badIds

C3_Witness ==
    \E i \in DOMAIN Events :
       /\ IsData(Events[i]) /\ Events[i].ok
       /\ ~CrcHolds(Events[i].pdu)
       /\ Events[i].apid \in DOMAIN Events[i].pre
       /\ Events[i].apid \in DOMAIN Events[i].post

\* C4 as stated: a completed opener (flag 1 or 3) with a wrong CRC is
\* dropped: no session, no LRIT, and the channel goes on.
C4_BadOpenerDropped ==
    \A i \in DOMAIN Events :
       (IsData(Events[i]) /\ Events[i].flags \in {1, 3} /\ EvBad(Events[i]))
          => /\ Events[i].ok
             /\ Events[i].lrit = None
             /\ Events[i].post = Events[i].pre

\* C5 as stated: a flag-2 TP_PDU with a wrong CRC, for an APID with an open
\* session, produces no LRIT.
C5_BadTerminatorNoLrit ==
    \A i \in DOMAIN Events :
       (IsData(Events[i]) /\ Events[i].flags = 2 /\ EvBad(Events[i])
          /\ Events[i].apid \in DOMAIN Events[i].pre)
          => Events[i].lrit = None

\* C6: Session::append with a TP_PDU that fails the CRC rule returns the
\* session with the same buffer, last sequence count and decompression
\* mode; a middle TP_PDU so rejected leaves the session map as it was.
C6_RejectedAppendKeepsSession ==
    \A i \in DOMAIN Events :
       LET e == Events[i] IN
       (IsData(e) /\ e.flags \in {0, 2} /\ ~CrcHolds(e.pdu) /\ e.apid \in DOMAIN e.pre)
          => LET s == e.pre[e.apid]
                 a == Session_append(s, e.pdu)
             IN  /\ a.ok
                 /\ a.session.bytes = s.bytes
                 /\ a.session.last_seq = s.last_seq
                 /\ a.session.needs_decomp = s.needs_decomp
                 /\ (e.flags = 0 => e.ok /\ e.post = e.pre)

C6_Witness ==
    \E i \in DOMAIN Events :
       /\ IsData(Events[i]) /\ Events[i].flags = 0 /\ EvBad(Events[i])
       /\ Events[i].apid \in DOMAIN Events[i].pre
       /\ Events[i].pre[Events[i].apid].last_seq # sequence_count(Events[i].pdu)

\* the last frame received came with a counter more than one ahead
GapRun ==
    /\ lastRun.n > 0
    /\ VCID(lastRun.vcdu) \in DOMAIN lastRun.pre
    /\ (counter(lastRun.vcdu) - lastRun.pre[VCID(lastRun.vcdu)].last_counter)
          % CounterModulus > 1

\* C7: a frame whose counter is more than one ahead is processed exactly as
\* the same frame is, in sequence, by the channel without its in-flight
\* TP_PDU: same outcome, same TP_PDUs routed, same LRITs, same channel
\* afterwards, with last_counter the new counter; nothing is routed when the
\* first-header pointer is 2047.
C7_GapDropsInFlight ==
    GapRun =>
        LET v == VCID(lastRun.vcdu)
            new == counter(lastRun.vcdu)
            fresh == [lastRun.pre[v] EXCEPT
                        !.current_tp_pdu = None,
                        !.last_counter = (new + CounterModulus - 1) % CounterModulus]
            r == App_process([lastRun.pre EXCEPT ![v] = fresh], lastRun.stats, now,
                             lastRun.vcdu)
        IN  /\ lastRun.ok = r.ok
            /\ lastRun.events = r.events
            /\ lastRun.lrits = r.lrits
            /\ lastRun.ok => vcs = r.vcs /\ vcs[v].last_counter = new
            /\ ((lastRun.vcdu[7] % 8) * 256) + lastRun.vcdu[8] = NO_HEADER
                  => lastRun.events = << >> /\ lastRun.lrits = << >>

C7_Witness ==
    /\ GapRun
    /\ lastRun.ok
    /\ IsSome(lastRun.pre[VCID(lastRun.vcdu)].current_tp_pdu)
    /\ header_complete(Get(lastRun.pre[VCID(lastRun.vcdu)].current_tp_pdu))
    /\ APID(Get(lastRun.pre[VCID(lastRun.vcdu)].current_tp_pdu)) \in APIDs
    /\ \E i \in DOMAIN Events : IsData(Events[i]) /\ IsSome(Events[i].lrit)

\* C8: diff_with_wrap(low, high, max) is the distance (high - low) mod max,
\* for max = 2^24 and max = 2^14: it is 0 for a repeated counter, 1 for the
\* next counter including the wrap from max - 1 to 0, and more than 1 for
\* every other pair, a backward step included.
C8_ModularDistance ==
    calc.d # -1 =>
        /\ calc.d = (calc.high - calc.low) % calc.max
        /\ calc.high = calc.low => calc.d = 0
        /\ calc.high = (calc.low + 1) % calc.max => calc.d = 1
        /\ (calc.d > 1) <=> (calc.high # calc.low /\ calc.high # (calc.low + 1) % calc.max)
        /\ \A k \in 1..NearWrap :
              calc.high = (calc.low + calc.max - k) % calc.max => calc.d > 1

C8_Witness ==
    /\ calc.max = CounterModulus
    /\ calc.low = CounterModulus - 1
    /\ calc.high = 0
    /\ calc.d = 1

\* C9: a CRC-valid flag-1 TP_PDU for an APID with an open session removes
\* that session without an LRIT; afterwards the map holds for the APID the
\* one session new_from_pdu builds from the new TP_PDU, whose buffer is that
\* TP_PDU's payload without its 10 leading bytes and its CRC.
C9_FirstReplacesSession ==
    \A i \in DOMAIN Events :
       LET e == Events[i] IN
       (IsData(e) /\ e.flags = 1 /\ ~EvBad(e) /\ e.apid \in DOMAIN e.pre)
          => /\ e.ok
             /\ e.lrit = None
             /\ e.apid \in DOMAIN e.post
             /\ e.post[e.apid] = Session_new_from_pdu(e.pdu).session
             /\ e.post[e.apid].bytes =
                   SubSeq(e.pdu.data, GARBAGE_LEN + 1, Len(e.pdu.data) - 2)
             /\ OthersKept(e)

C9_Witness ==
    \E i \in DOMAIN Events :
       /\ IsData(Events[i]) /\ Events[i].flags = 1 /\ ~EvBad(Events[i])
       /\ Events[i].apid \in DOMAIN Events[i].pre
       /\ Events[i].post[Events[i].apid] # Events[i].pre[Events[i].apid]

C11_OrphanDiscarded ==
    \A i \in DOMAIN Events :
       LET e == Events[i] IN
       (IsData(e) /\ e.flags \in {0, 2} /\ e.apid \notin DOMAIN e.pre)
          => /\ e.ok
             /\ e.lrit = None
             /\ e.post = e.pre
             /\ e.stats_post.discards = e.stats_pre.discards + 1

\* the part of C11 about flag 0 alone
C11_OrphanMiddleCounted ==
    \A i \in DOMAIN Events :
       LET e == Events[i] IN
       (IsData(e) /\ e.flags = 0 /\ e.apid \notin DOMAIN e.pre)
          => /\ e.ok
             /\ e.lrit = None
             /\ e.post = e.pre
             /\ e.stats_post.discards = e.stats_pre.discards + 1

\* C12: a completed TP_PDU of APID 2047 is routed without effect, whatever
\* its sequence flag and whether or not its CRC holds: the call succeeds,
\* the session map is as before, no LRIT is returned and the statistics
\* (the per-APID counts included) are as before.
C12_FillPduSilent ==
    \A i \in DOMAIN Events :
       LET e == Events[i] IN
       ~IsData(e)
          => /\ e.ok
             /\ e.lrit = None
             /\ e.post = e.pre
             /\ e.stats_post = e.stats_pre
             /\ FILL_APID \notin DOMAIN e.stats_post.apid

\* a fill-APID TP_PDU with a payload, the flag of an opener and a valid CRC
\* met an open session
C12_Witness ==
    \E i \in DOMAIN Events :
       /\ ~IsData(Events[i]) /\ Events[i].flags = 1
       /\ Events[i].pdu.data # << >> /\ CrcHolds(Events[i].pdu)
       /\ Events[i].pre # << >>

\* C13: a frame with VCID 63 is processed without error, returns no LRIT,
\* routes no TP_PDU and leaves the channel map as it was (every channel's
\* last_counter, in-flight TP_PDU and sessions); the map never has key 63.
C13_FillFrameBypasses ==
    /\ FILL_VCID \notin DOMAIN vcs
    /\ (lastRun.n > 0 /\ VCID(lastRun.vcdu) = FILL_VCID)
          => /\ lastRun.ok
             /\ lastRun.lrits = << >>
             /\ lastRun.events = << >>
             /\ vcs = lastRun.pre

\* a fill frame arrived while a channel had a TP_PDU in flight and a session
C13_Witness ==
    /\ lastRun.n > 1
    /\ VCID(lastRun.vcdu) = FILL_VCID
    /\ \E v \in DOMAIN vcs :
          /\ IsSome(vcs[v].current_tp_pdu)
          /\ vcs[v].apid_map # << >>

\* the statistics App::process hands to process_vcdu for the last frame
RunStats == record_VCDUPacket(record_Packet(lastRun.stats), VCID(lastRun.vcdu), now)

\* C14: after a frame of VCID v (not 63) the map has an entry for v and
\* every entry it had before.  If v had none, the frame was processed by a
\* new channel whose last_counter is the frame's own counter, so that the
\* gap test is false for it whatever the counter; if v had one, the frame
\* was processed by that stored entry (counter, in-flight TP_PDU, sessions).
\* The entries of the other channels are as before.
C14_ChannelCreatedOnce ==
    (lastRun.n > 0 /\ lastRun.ok /\ VCID(lastRun.vcdu) # FILL_VCID) =>
        LET v == VCID(lastRun.vcdu)
            c == counter(lastRun.vcdu)
        IN  /\ DOMAIN vcs = DOMAIN lastRun.pre \cup {v}
            /\ \A b \in DOMAIN lastRun.pre \ {v} : vcs[b] = lastRun.pre[b]
            /\ vcs[v].last_counter = c
            /\ v \notin DOMAIN lastRun.pre =>
                  /\ VirtualChannel_new(v, c).last_counter = c
                  /\ ~counter_gap(VirtualChannel_new(v, c).last_counter, c)
                  /\ VirtualChannel_new(v, c).current_tp_pdu = None
                  /\ VirtualChannel_new(v, c).apid_map = << >>
                  /\ vcs[v] = process_vcdu(VirtualChannel_new(v, c), lastRun.vcdu,
                                           RunStats).vc
            /\ v \in DOMAIN lastRun.pre =>
                  vcs[v] = process_vcdu(lastRun.pre[v], lastRun.vcdu, RunStats).vc

\* a channel created by a frame with the last counter before the wrap
\* processes its next frame with the TP_PDU it kept in flight
C14_Witness ==
    /\ lastRun.n > 1
    /\ lastRun.ok
    /\ VCID(lastRun.vcdu) \in DOMAIN lastRun.pre
    /\ counter(lastRun.vcdu) = 0
    /\ IsSome(lastRun.pre[VCID(lastRun.vcdu)].current_tp_pdu)
    /\ lastRun.lrits # << >>

\* the channel map with the entries of the channels in S only
Restrict(vs, S) == [v \in DOMAIN vs \cap S |-> vs[v]]

\* r, the outcome of the last frame on channel a for a receiver that knows
\* no other channel, is the outcome it had
SameOutcome(r, a) ==
    /\ r.ok
    /\ r.lrits = lastRun.lrits
    /\ r.events = lastRun.events
    /\ r.vcs[a] = vcs[a]

FromSolo(lrit) == lrit.vcid \in SoloVCs

\* C15: a frame of VCID a leaves the entry of every other channel (its
\* last_counter, in-flight TP_PDU and sessions) as it was, and is processed
\* as by a receiver that has channel a only: same TP_PDUs routed, same
\* LRITs, same channel a afterwards.  So the LRITs handed out for channel 1,
\* and its state, are those of a receiver that is given the frames of
\* channel 1 alone.
C15_ChannelsIndependent ==
    /\ (lastRun.n > 0 /\ lastRun.ok) =>
          /\ \A b \in DOMAIN lastRun.pre \ {VCID(lastRun.vcdu)} :
                b \in DOMAIN vcs /\ vcs[b] = lastRun.pre[b]
          /\ SameOutcome(App_process(Restrict(lastRun.pre, {VCID(lastRun.vcdu)}),
                                     lastRun.stats, now, lastRun.vcdu),
                         VCID(lastRun.vcdu))
    /\ SelectSeq(handled, FromSolo) = fullHandled
    /\ Restrict(vcs, SoloVCs) = fullVcs

\* a frame of channel 2 completed a file while channel 1 had a session open
\* for the same APID and a TP_PDU in flight
C15_Witness ==
    /\ lastRun.n > 1
    /\ lastRun.ok
    /\ VCID(lastRun.vcdu) = 2
    /\ 1 \in DOMAIN lastRun.pre
    /\ IsSome(lastRun.pre[1].current_tp_pdu)
    /\ \E i \in DOMAIN Events :
          /\ IsSome(Events[i].lrit)
          /\ Events[i].apid \in DOMAIN lastRun.pre[1].apid_map

\* C16: the session stored in channel v under key k has apid = k and
\* vcid = v, a continuation leaves both as they were, the TP_PDU in flight
\* on channel v carries vcid = v, and every LRIT a frame of VCID v returned
\* carries vcid = v.
C16_SessionsKeepIds ==
    /\ \A v \in DOMAIN vcs :
          /\ vcs[v].id = v
          /\ \A k \in DOMAIN vcs[v].apid_map :
                vcs[v].apid_map[k].apid = k /\ vcs[v].apid_map[k].vcid = v
          /\ IsSome(vcs[v].current_tp_pdu) => Get(vcs[v].current_tp_pdu).vcid = v
    /\ \A i \in DOMAIN Events :
          (Events[i].flags = 0 /\ Events[i].apid \in DOMAIN Events[i].pre
             /\ Events[i].apid \in DOMAIN Events[i].post)
             => /\ Events[i].post[Events[i].apid].apid = Events[i].pre[Events[i].apid].apid
                /\ Events[i].post[Events[i].apid].vcid = Events[i].pre[Events[i].apid].vcid
    /\ \A i \in DOMAIN lastRun.lrits : lastRun.lrits[i].vcid = VCID(lastRun.vcdu)
    /\ \A i \in DOMAIN handled : handled[i].vcid \in MuxVCs

\* both channels were seen, one holds a session, and LRITs of both channels
\* were handed out or are being assembled
C16_Witness ==
    /\ DOMAIN vcs = MuxVCs
    /\ \E v \in MuxVCs : \E w \in MuxVCs \ {v} :
          /\ vcs[v].apid_map # << >>
          /\ \E i \in DOMAIN handled : handled[i].vcid = w

\* the indices of the TP_PDUs of the last frame for which process returned
\* an LRIT, and the k-th of them in the order they were routed
Finishers == {i \in DOMAIN Events : IsSome(Events[i].lrit)}

Finisher(k) == CHOOSE i \in Finishers : Cardinality({j \in Finishers : j < i}) = k - 1

\* every TP_PDU of the script was put and received
ScriptDone ==
    /\ nextId > Len(Script)
    /\ \A v \in StreamVCs : \A i \in DOMAIN pdus[v] : pdus[v][i].apid = FILL_APID

\* C17: the LRITs a frame returns are those of its terminating TP_PDUs in
\* the order these are routed, which is their order in the frame; they are
\* handed over after the LRITs of all earlier frames; so the files handed
\* over are in the order their terminators were sent.  When the script
\* first100, first101, mid100, mid101, last100, last101 is received, two
\* LRITs were handed over, first that of APID 100 (TP_PDUs 1, 3, 5), then
\* that of APID 101 (TP_PDUs 2, 4, 6).
C17_CompletionOrder ==
    /\ lastRun.ok =>
          /\ Len(lastRun.lrits) = Cardinality(Finishers)
          /\ \A k \in DOMAIN lastRun.lrits :
                lastRun.lrits[k] = Get(Events[Finisher(k)].lrit)
          /\ Len(handled) >= Len(lastRun.lrits)
          /\ SubSeq(handled, Len(handled) - Len(lastRun.lrits) + 1, Len(handled))
                = lastRun.lrits
    /\ HandledFiles = expected
    /\ (ScriptDone /\ ~aborted) =>
          /\ Len(handled) = 2
          /\ handled[1].data = <<1, 3, 5>>
          /\ handled[2].data = <<2, 4, 6>>

\* the script was received and both files were completed by one frame
C17_Witness ==
    /\ ScriptDone
    /\ Len(lastRun.lrits) = 2
    /\ Len(handled) = 2

\* the script was received and the two files were completed by two frames
C17_TwoFrames ==
    /\ ScriptDone
    /\ Len(lastRun.lrits) = 1
    /\ Len(handled) = 2

\* the session that process finishes for the terminator of e
Finished(e) ==
    IF e.flags = 3 THEN Session_new_from_pdu(e.pdu).session
    ELSE Session_append(e.pre[e.apid], e.pdu).session

\* the LRIT l is the buffer buf split at the total header length
SplitsAt(l, buf) ==
    /\ l.headers.primary = Get(PrimaryHeader_from_bytes(buf))
    /\ l.headers.primary.total_header_length <= Len(buf)
    /\ l.data = SubSeq(buf, l.headers.primary.total_header_length + 1, Len(buf))
    /\ Take(buf, l.headers.primary.total_header_length) \o l.data = buf

\* C18: every LRIT returned carries the primary header read from the
\* session buffer as it was at finish; its total_header_length is at most
\* the buffer's length and its data is the buffer from that offset to the end.
C18_DataAfterHeaders ==
    \A i \in DOMAIN Events :
       (IsData(Events[i]) /\ IsSome(Events[i].lrit))
          => SplitsAt(Get(Events[i].lrit), Finished(Events[i]).bytes)

\* a file of two TP_PDUs with an annotation record was handed out
C18_Witness ==
    \E i \in DOMAIN Events :
       /\ IsData(Events[i]) /\ Events[i].flags = 2 /\ IsSome(Events[i].lrit)
       /\ Get(Events[i].lrit).headers.primary.total_header_length > PRIMARY_LEN
       /\ Len(Get(Events[i].lrit).data) = 2

\* the primary header of the buffer declares more header bytes than it has
Overruns(buf) ==
    /\ IsSome(PrimaryHeader_from_bytes(buf))
    /\ Get(PrimaryHeader_from_bytes(buf)).total_header_length > Len(buf)

\* e is a terminator that has process finish a session
Finishes(e) ==
    /\ IsData(e)
    /\ \/ e.flags = 3
       \/ e.flags = 2 /\ e.apid \in DOMAIN e.pre

\* C19 as stated: when the session finished for a terminator has a primary
\* header whose total_header_length is greater than the buffer's length,
\* process returns without an LRIT, the session is gone, the other sessions
\* are kept and the frame's remaining TP_PDUs and later frames are processed.
C19_OverrunLosesOnlySession ==
    \A i \in DOMAIN Events :
       (Finishes(Events[i]) /\ Overruns(Finished(Events[i]).bytes))
          => /\ Events[i].ok
             /\ Events[i].lrit = None
             /\ Events[i].apid \notin DOMAIN Events[i].post
             /\ OthersKept(Events[i])
             /\ ~aborted

\* the part of C19 that the code keeps: no LRIT is returned for the session
C19_OverrunNoLrit ==
    \A i \in DOMAIN Events :
       (Finishes(Events[i]) /\ Overruns(Finished(Events[i]).bytes))
          => Events[i].lrit = None

\* read_headers does not return a header set for a buffer that begins with
\* a primary header
ParseFails(buf) ==
    /\ IsSome(PrimaryHeader_from_bytes(buf))
    /\ ~read_headers(buf).ok

OpenerBytes(e) == SubSeq(e.pdu.data, GARBAGE_LEN + 1, Len(e.pdu.data) - 2)

\* read_headers is called for e's TP_PDU and fails: by new_from_pdu, when
\* the opener holds all the bytes its primary header declares, or by finish
Parses(e) ==
    /\ IsData(e)
    /\ \/ /\ e.flags \in {1, 3}
          /\ ~Overruns(OpenerBytes(e))
          /\ ParseFails(OpenerBytes(e))
       \/ /\ Finishes(e)
          /\ ParseFails(Finished(e).bytes)

\* C20 as stated: when read_headers fails on a session's header set (a
\* record of unknown type, or records that the buffer is too short for),
\* process returns without an LRIT, that session is gone, the other
\* sessions are kept and processing goes on.
C20_ParseErrorLosesOnlySession ==
    \A i \in DOMAIN Events :
       Parses(Events[i])
          => /\ Events[i].ok
             /\ Events[i].lrit = None
             /\ Events[i].apid \notin DOMAIN Events[i].post
             /\ OthersKept(Events[i])
             /\ ~aborted

\* the bytes handed to the last call of process_bytes
LastChunk == SubSeq(calc.bytes, calc.used - calc.ret + 1, calc.offered)

\* the header bytes the last call had to move
HeaderMoved == Min(TP_HEADER_LEN - Len(calc.pre.header), calc.n)

\* the declared length of the TP_PDU, from the length field of its header
Declared(p) == (p.header[5] * 256) + p.header[6] + 1

\* the payload bytes the last call had to move, once the header is complete
PayloadMoved ==
    IF Len(calc.pdu.header) < TP_HEADER_LEN THEN 0
    ELSE Min(Declared(calc.pdu) - Len(calc.pre.data), calc.n - HeaderMoved)

\* C21: a call of process_bytes that returns, on a TP_PDU with h header
\* bytes and p payload bytes and with n >= 1 bytes, appends the first
\* min(6 - h, n) bytes to the header and, if the header is then complete
\* with declared length L, the next min(L - p, rest) bytes to the payload,
\* and returns the sum; the header is never longer than 6 and the payload
\* never longer than L.
C21_MovesWhatFits ==
    (calc.feeds > 0 /\ calc.ok) =>
        /\ calc.pdu.header = calc.pre.header \o SubSeq(LastChunk, 1, HeaderMoved)
        /\ calc.pdu.data = calc.pre.data
              \o SubSeq(LastChunk, HeaderMoved + 1, HeaderMoved + PayloadMoved)
        /\ calc.ret = HeaderMoved + PayloadMoved
        /\ calc.ret >= 1
        /\ Len(calc.pdu.header) <= TP_HEADER_LEN
        /\ Len(calc.pdu.header) = TP_HEADER_LEN
              => Len(calc.pdu.data) <= Declared(calc.pdu)
        /\ calc.pdu.header \o calc.pdu.data = Take(calc.bytes, calc.used)

\* one call completed the header, moved the whole payload and left bytes
C21_Witness ==
    /\ calc.feeds > 1
    /\ calc.ok
    /\ Len(calc.pre.header) \in 1..(TP_HEADER_LEN - 1)
    /\ calc.ret < calc.n
    /\ calc.ret > HeaderMoved

\* the outcome r of one call is what the calls made so far have built
SameAsFed(r) ==
    /\ r.ok = calc.ok
    /\ r.ok => (r.pdu = calc.pdu /\ r.used = calc.used)

\* C22: whatever the sizes of the chunks a TP_PDU arrives in, the header,
\* the payload and the number of bytes consumed are those of one call
\* that is given all the bytes offered so far at once.
C22_ChunkingIrrelevant ==
    calc.feeds > 0 =>
        SameAsFed(process_bytes(TP_PDU_new(1), Take(calc.bytes, calc.offered)))

\* a TP_PDU was completed by three or more calls, one of which began
\* inside the 6-byte header
C22_Witness ==
    /\ calc.feeds >= 3
    /\ calc.ok
    /\ data_complete(calc.pdu)
    /\ Len(calc.pre.header) = TP_HEADER_LEN
    /\ calc.pre.data # <<>>
    /\ calc.used < calc.offered

\* C23: the declared length of a TP_PDU whose header is complete is at
\* least 2 and at most 8192.
C23_LengthInRange ==
    header_complete(calc.pdu) =>
        (packet_length_raw(calc.pdu) >= 2 /\ packet_length_raw(calc.pdu) <= TP_MAX_LEN)

\* the TP_PDUs in flight before the last frame
InFlightBefore ==
    UNION {{lastRun.pre[v].current_tp_pdu[i] :
               i \in DOMAIN lastRun.pre[v].current_tp_pdu} : v \in DOMAIN lastRun.pre}

\* the last frame found the TP_PDU p in flight on its channel
Continues(p) ==
    /\ lastRun.n > 0
    /\ VCID(lastRun.vcdu) \in DOMAIN lastRun.pre
    /\ lastRun.pre[VCID(lastRun.vcdu)].current_tp_pdu = Some(p)
    /\ ~counter_gap(lastRun.pre[VCID(lastRun.vcdu)].last_counter,
                    counter(lastRun.vcdu))

\* the first-header pointer of the last frame
FramePointer == ((lastRun.vcdu[7] % 8) * 256) + lastRun.vcdu[8]

\* the header of the TP_PDU p once the last frame completed it
JoinedHeader(p) == Take(p.header \o Drop(lastRun.vcdu, 8), TP_HEADER_LEN)

\* the bytes of the last frame's packet zone that belong to the TP_PDU p
\* by its length field
OwnBytes(p) ==
    (TP_HEADER_LEN - Len(p.header))
       + ((JoinedHeader(p)[5] * 256) + JoinedHeader(p)[6] + 1) - Len(p.data)

\* the last frame continues the TP_PDU p and points elsewhere than its end
Misaligned(p) ==
    /\ Continues(p)
    /\ FramePointer # NO_HEADER
    /\ OwnBytes(p) # FramePointer

\* C24: a frame that continues the in-flight TP_PDU and whose pointer is not
\* where that TP_PDU ends is processed to its end: the TP_PDU is dropped,
\* parsing resumes at the pointer, and the program goes on.
C24_MisalignedConfined ==
    \A p \in InFlightBefore : Misaligned(p) => (lastRun.ok /\ ~aborted)

\* the TP_PDU of e continues an open session and its sequence count is
\* more than one ahead of the session's, modulo 2^14
SkipsAhead(e) ==
    /\ IsData(e)
    /\ e.flags \in {0, 2}
    /\ CrcHolds(e.pdu)
    /\ e.apid \in DOMAIN e.pre
    /\ (e.seq + SeqModulus - e.pre[e.apid].last_seq) % SeqModulus > 1

\* the payload of the TP_PDU of e without its CRC
Payload(e) == Take(e.pdu.data, Len(e.pdu.data) - 2)

\* C25: a CRC-valid continuation whose sequence count is more than one
\* ahead of the session's is appended all the same: with flag 0 the session
\* stays open with the payload appended and last_seq the new count, with
\* flag 2 it is finished with the payload and its LRIT is returned.
C25_SequenceGapKeepsSession ==
    \A i \in DOMAIN Events :
       LET e == Events[i] IN
       SkipsAhead(e) =>
          /\ e.ok
          /\ e.flags = 0 =>
                /\ e.apid \in DOMAIN e.post
                /\ e.post[e.apid].bytes = e.pre[e.apid].bytes \o Payload(e)
                /\ e.post[e.apid].last_seq = e.seq
                /\ e.lrit = None
          /\ e.flags = 2 =>
                /\ e.apid \notin DOMAIN e.post
                /\ IsSome(e.lrit)
                /\ Get(e.lrit).data
                      = Drop(e.pre[e.apid].bytes \o Payload(e),
                             Get(e.lrit).headers.primary.total_header_length)
          /\ OthersKept(e)

\* a terminator arrived after lost TP_PDUs, its sequence count wrapped
\* around, and its file was handed out
C25_Witness ==
    \E i \in DOMAIN Events :
       /\ SkipsAhead(Events[i])
       /\ Events[i].flags = 2
       /\ Events[i].seq < Events[i].pre[Events[i].apid].last_seq
       /\ handled # << >>

\* the position in the handler list of the k-th call, and the LRIT it is for
CallHandler(k) == ((k - 1) % Len(handlers)) + 1

CallLrit(k) == ((k - 1) \div Len(handlers)) + 1

\* C26: every LRIT handed out is passed to every handler of the list once,
\* in list order, before the next LRIT is, whatever the handlers return:
\* neither Skipped nor an error keeps a later handler, a later LRIT or a
\* later frame from being processed.
C26_EveryHandlerEveryLrit ==
    /\ Len(calls) = Len(handlers) * Len(handled)
    /\ \A k \in DOMAIN calls :
          /\ calls[k].handler = handlers[CallHandler(k)]
          /\ calls[k].lrit = handled[CallLrit(k)]
    /\ \A k \in DOMAIN calls : calls[k].result \in HandlerResults

\* the first handler failed on the first LRIT and another skipped it; the
\* others were called, and so were all of them for an LRIT of a later frame
C26_Witness ==
    /\ Len(handled) >= 2
    /\ Len(calls) = Len(handlers) * Len(handled)
    /\ calls[1].result = "Io"
    /\ \E k \in 2..Len(handlers) : calls[k].result = "Skipped"
    /\ lastRun.n >= 2
    /\ lastRun.lrits # << >>
    /\ ~aborted

\* what the sender put in the TP_PDUs 1..t of the script for the APID a,
\* without the 10 leading bytes of the first one and without the CRCs
RECURSIVE SentBytes(_, _)
SentBytes(a, t) ==
    IF t = 0 THEN << >>
    ELSE SentBytes(a, t - 1)
            \o (IF Script[t].apid # a THEN << >>
                ELSE IF Script[t].flag \in {1, 3}
                THEN Drop(Body(Script[t].flag, t), GARBAGE_LEN)
                ELSE Body(Script[t].flag, t))

\* the session of e, before or after it, needs no decompression
Plain(ss, a) == a \in DOMAIN ss /\ ~IsSome(ss[a].needs_decomp)

\* C27: the buffer of a session without decompression is the payload of
\* its first TP_PDU without its 10 leading bytes and its CRC, followed by
\* the payloads of its later TP_PDUs without their CRCs, in the order of
\* arrival; this is the buffer that is split into headers and data when
\* the session is finished.
C27_BufferIsPayloads ==
    \A i \in DOMAIN Events :
       LET e == Events[i] IN
       (IsData(e) /\ CrcHolds(e.pdu)) =>
          /\ e.ok
          /\ (e.flags \in {0, 1} /\ Plain(e.post, e.apid)) =>
                e.post[e.apid].bytes = SentBytes(e.apid, EvTag(e))
          /\ (e.flags = 2 /\ Plain(e.pre, e.apid)) =>
                /\ e.pre[e.apid].bytes \o Payload(e) = SentBytes(e.apid, EvTag(e))
                /\ IsSome(e.lrit)
                /\ Get(e.lrit).data
                      = Drop(SentBytes(e.apid, EvTag(e)),
                             Get(e.lrit).headers.primary.total_header_length)

\* a session of three TP_PDUs was finished while another APID's TP_PDUs
\* arrived in between
C27_Witness ==
    \E i \in DOMAIN Events :
       /\ Events[i].flags = 2
       /\ Plain(Events[i].pre, Events[i].apid)
       /\ IsSome(Events[i].lrit)
       /\ Len(Get(Events[i].lrit).data) = 3
       /\ EvTag(Events[i]) = Len(Script)

\* CRC-16/CCITT-FALSE by its definition: the register starts at 0xFFFF;
\* each byte is XORed into its high half and the register is shifted left
\* eight times, 0x1021 being XORed in whenever a 1 is shifted out; the
\* register is the result
CcittShift(r) == IF r >= 32768 THEN Xor((r * 2) % 65536, 4129) ELSE r * 2

RECURSIVE CcittShifts(_, _)
CcittShifts(r, n) ==
    IF n = 0 THEN r
    ELSE LET q == CcittShift(r) IN IF q >= 0 THEN CcittShifts(q, n - 1) ELSE 0

RECURSIVE CcittFalse(_, _)
CcittFalse(r, d) ==
    IF d = << >> THEN r
    ELSE LET q == CcittShifts(Xor(r, Head(d) * 256), 8)
         IN  IF q >= 0 THEN CcittFalse(q, Tail(d)) ELSE 0

\* CRC-32 of ISO 3309 by its definition, on registers of bits (least
\* significant first): the register starts at all ones; each byte is XORed
\* into its low end and the register is shifted right eight times, the
\* polynomial 0xEDB88320 being XORed in whenever a 1 is shifted out; the
\* complement of the register is the result
Bits(x, n) == Take([i \in 1..n |-> (x \div (2 ^ (i - 1))) % 2], n)

IsoPoly == Bits(33568, 16) \o Bits(60856, 16)

AllOnes == Bits(65535, 16) \o Bits(65535, 16)

\* the bitwise XOR of two registers
BitXor(r, q) == Take([i \in 1..Len(r) |-> (r[i] + q[i]) % 2], Len(r))

IsoShift(r) ==
    IF r[1] = 1 THEN BitXor(Tail(r) \o <<0>>, IsoPoly) ELSE Tail(r) \o <<0>>

RECURSIVE IsoShifts(_, _)
IsoShifts(r, n) ==
    IF n = 0 THEN r
    ELSE LET q == IsoShift(r) IN IF Len(q) > 0 THEN IsoShifts(q, n - 1) ELSE q

RECURSIVE Iso3309(_, _)
Iso3309(r, d) ==
    IF d = << >> THEN BitXor(r, AllOnes)
    ELSE LET q == IsoShifts(BitXor(r, Bits(Head(d), 8) \o Bits(0, 24)), 8)
         IN  IF Len(q) > 0 THEN Iso3309(q, Tail(d)) ELSE q

\* the bits of a 32-bit value given as its halves <<high, low>>
Bits32(c) == Bits(c[2], 16) \o Bits(c[1], 16)

\* C28: calc_crc16 is CRC-16/CCITT-FALSE (polynomial 0x1021, initial value
\* 0xFFFF, not reflected, no final XOR) and calc_crc32 is the CRC-32 of
\* ISO 3309; of the string "123456789" they are 0x29B1 and 0xCBF43926.
C28_CrcAlgorithms ==
    /\ IsSome(calc.crc16) =>
          /\ Get(calc.crc16) = CcittFalse(65535, calc.data)
          /\ calc.data = CheckString => Get(calc.crc16) = 10673
    /\ IsSome(calc.crc32) =>
          /\ Bits32(Get(calc.crc32)) = Iso3309(AllOnes, calc.data)
          /\ calc.data = CheckString => Get(calc.crc32) = <<52212, 14630>>

\* both checksums of "123456789" were computed
C28_Witness ==
    /\ calc.data = CheckString
    /\ IsSome(calc.crc16)
    /\ IsSome(calc.crc32)

\* the value parse returned has the sequence number, the priority and the
\* legacy name that the name has at its characters 41..46, 48 and 50 on
FieldsRead(v) ==
    /\ v.sequence = Number(SubSeq(calc.name, 42, 47))
    /\ Some(v.priority) = to_digit(calc.name[49])
    /\ v.legacy_filename = Drop(calc.name, 50)
    /\ v.pflag = calc.name[1]

\* C29: parse returns a parsed value for every name of the documented
\* form, with the sequence number of characters 41..46, the priority of
\* character 48 and the legacy name from character 50 on.
C29_EveryNameParses ==
    IsSome(calc.out) =>
        /\ Get(calc.out).ok
        /\ IsSome(Get(calc.out).value)
        /\ FieldsRead(Get(Get(calc.out).value))

\* the same for the names whose heading is one of the tests' headings
C29_TestHeadingsParse ==
    (IsSome(calc.out) /\ calc.stem \in TestStems) =>
        /\ Get(calc.out).ok
        /\ IsSome(Get(calc.out).value)
        /\ FieldsRead(Get(Get(calc.out).value))

\* the bytes hold a complete header set that has an image structure record
\* and a rice compression record
HasRiceHeaders(bytes) ==
    /\ IsSome(PrimaryHeader_from_bytes(bytes))
    /\ Len(bytes) >= Get(PrimaryHeader_from_bytes(bytes)).total_header_length
    /\ read_headers(bytes).ok
    /\ IsSome(read_headers(bytes).headers.img_strucutre)
    /\ IsSome(read_headers(bytes).headers.rice_compression)

\* C30: once the bytes a session has accumulated hold both the image
\* structure and the rice compression record, whichever TP_PDU brought
\* them, the session has its decoder, and every TP_PDU appended from then
\* on is decoded into one scanline.
C30_DecoderOnceHeadersComplete ==
    \A i \in DOMAIN Events :
       LET e == Events[i] IN
       (IsData(e) /\ e.ok /\ CrcHolds(e.pdu) /\ e.flags = 0 /\ e.apid \in DOMAIN e.pre
           /\ e.apid \in DOMAIN e.post) =>
          /\ HasRiceHeaders(e.post[e.apid].bytes) => IsSome(e.post[e.apid].needs_decomp)
          /\ HasRiceHeaders(e.pre[e.apid].bytes) =>
                Len(e.post[e.apid].bytes)
                   = Len(e.pre[e.apid].bytes)
                        + Get(read_headers(e.pre[e.apid].bytes).headers.img_strucutre).num_columns

\* the same for the sessions whose first TP_PDU brought the whole header set
C30_DecoderFromOpener ==
    \A i \in DOMAIN Events :
       LET e == Events[i] IN
       (IsData(e) /\ e.ok /\ CrcHolds(e.pdu) /\ e.flags = 0 /\ e.apid \in DOMAIN e.pre
           /\ IsSome(e.pre[e.apid].needs_decomp)) =>
          /\ e.apid \in DOMAIN e.post
          /\ IsSome(e.post[e.apid].needs_decomp)
          /\ Len(e.post[e.apid].bytes)
                = Len(e.pre[e.apid].bytes)
                     + Get(read_headers(e.pre[e.apid].bytes).headers.img_strucutre).num_columns

\* every TP_PDU of the image was sent and its last byte was in a frame that
\* the receiver was given
SegmentReceived ==
    /\ nextId > Len(SegmentScript)
    /\ \A v \in StreamVCs : \A i \in DOMAIN pdus[v] : pdus[v][i].apid = FILL_APID

\* C31: when the image is sent as two TP_PDUs, the first (flag 1) with the
\* header set and the first compressed scanline, the second (flag 2) with
\* the second compressed scanline, the receiver emits exactly one LRIT and
\* its data has 400 bytes, 200 decoded from each TP_PDU.
C31_TwoPduImage ==
    /\ Len(handled) <= 1
    /\ (calc.script = "two" /\ SegmentReceived) =>
          /\ ~aborted
          /\ Len(handled) = 1
          /\ Len(handled[1].data) = 400

\* the same image with the header set alone in its first TP_PDU and one
\* scanline in each of the two that follow: one LRIT with 400 bytes of data
C31_ThreePduImage ==
    /\ Len(handled) <= 1
    /\ (calc.script = "three" /\ SegmentReceived) =>
          /\ ~aborted
          /\ Len(handled) = 1
          /\ Len(handled[1].data) = 400
          /\ IsSome(handled[1].headers.rice_compression)

\* the three TP_PDUs arrived, the second and third in a later frame than
\* the first
C31_ThreePduWitness ==
    /\ calc.script = "three"
    /\ SegmentReceived
    /\ nFrames >= 2
    /\ Len(handled) = 1

\* the count of a VCID in a bucket
Count(b, id) == IF id \in DOMAIN b.map THEN b.map[id] ELSE 0

\* the VCDUPacket records of a VCID logged so far
PacketRecords(id) ==
    {k \in DOMAIN calc.log : calc.log[k].stat = "VCDUPacket" /\ calc.log[k].id = id}

\* a record belongs to a bucket that existed when the record returned and
\* was less than a second old when the record was made
InBucket(r, b) == b.inst <= r.done /\ r.t - b.inst < 1000

RECURSIVE BucketTotal(_, _)
BucketTotal(bs, ids) ==
    IF bs = << >> THEN 0
    ELSE IF ids = {} THEN BucketTotal(Tail(bs), StatVCs)
    ELSE LET id == CHOOSE x \in ids : TRUE
         IN  Count(Head(bs), id) + BucketTotal(bs, ids \ {id})

\* what the last record did to the buckets
LastRecord == calc.log[Len(calc.log)]

FrontIsFresh ==
    /\ Len(calc.pre.vcdu_packets) > 0
    /\ LastRecord.t - calc.pre.vcdu_packets[1].inst < 1000

\* C32: a VCDUPacket(vcid) record adds one to the count of vcid in the front
\* bucket when that was created less than a second earlier, and otherwise
\* pushes a new bucket with count 1 to the front; nothing else changes, and
\* no other kind of record changes a bucket.  Hence every bucket counts, for
\* each VCID, exactly the records made less than a second after its
\* creation and before the next bucket's; creation times never increase
\* from front to back; the counts add up to the number of records.
C32_BucketsCoverOneSecond ==
    LET B == stats.vcdu_packets
        P == calc.pre.vcdu_packets
    IN  /\ (calc.log # << >> /\ LastRecord.stat # "VCDUPacket") => B = P
        /\ (calc.log # << >> /\ LastRecord.stat = "VCDUPacket" /\ FrontIsFresh) =>
              /\ Len(B) = Len(P)
              /\ Tail(B) = Tail(P)
              /\ B[1].inst = P[1].inst
              /\ \A id \in StatVCs :
                    Count(B[1], id)
                       = Count(P[1], id) + (IF id = LastRecord.id THEN 1 ELSE 0)
        /\ (calc.log # << >> /\ LastRecord.stat = "VCDUPacket" /\ ~FrontIsFresh) =>
              /\ Tail(B) = P
              /\ B[1].inst = LastRecord.done
              /\ \A id \in StatVCs :
                    Count(B[1], id) = (IF id = LastRecord.id THEN 1 ELSE 0)
        /\ \A i \in DOMAIN B : \A id \in StatVCs :
              Count(B[i], id)
                 = Cardinality({k \in PacketRecords(id) : InBucket(calc.log[k], B[i])})
        /\ \A k \in UNION {PacketRecords(id) : id \in StatVCs} :
              Cardinality({i \in DOMAIN B : InBucket(calc.log[k], B[i])}) = 1
        /\ \A i, j \in DOMAIN B : i < j => B[i].inst >= B[j].inst
        /\ BucketTotal(B, StatVCs)
              = Cardinality(UNION {PacketRecords(id) : id \in StatVCs})
        /\ \A i \in DOMAIN B : DOMAIN B[i].map \subseteq StatVCs

\* two buckets, the older with a record of each of two VCIDs, the front one
\* created by a record made exactly a second after the older
C32_Witness ==
    /\ Len(stats.vcdu_packets) = 2
    /\ Count(stats.vcdu_packets[2], 1) = 1
    /\ Count(stats.vcdu_packets[2], FILL_VCID) = 1
    /\ LastRecord.stat = "VCDUPacket"
    /\ LastRecord.t - stats.vcdu_packets[2].inst = 1000
    /\ stats.packets > 0

\* the last frame was a fill frame
FillRun == lastRun.n > 0 /\ VCID(lastRun.vcdu) = FILL_VCID

\* C33: a frame with VCID 63 adds one to the total of packets and changes
\* no other statistic: the per-VCID buckets, the fill count, the APID
\* counts, the discard count and the byte count are as they were.
C33_FillFrameCountsPacketOnly ==
    FillRun => stats = [lastRun.stats EXCEPT !.packets = @ + 1]

\* what a fill frame does record: one packet, and one packet of VCID 63 in
\* the per-VCID buckets; the other statistics are as they were
C33_FillFrameCountsItsChannel ==
    FillRun =>
       /\ stats = record_VCDUPacket(record_Packet(lastRun.stats), FILL_VCID, now)
       /\ stats.packets = lastRun.stats.packets + 1
       /\ stats.vcdu_packets # lastRun.stats.vcdu_packets
       /\ stats.fills = lastRun.stats.fills
       /\ stats.apid = lastRun.stats.apid
       /\ stats.discards = lastRun.stats.discards
       /\ stats.bytes = lastRun.stats.bytes

\* a fill frame arrived after frames of a channel that recorded APID counts
C33_FillAfterData ==
    /\ FillRun
    /\ lastRun.stats.apid # << >>
    /\ lastRun.stats.vcdu_packets # << >>

\* the messages the reader sent to the loop, by their place in the order
\* they were read from the socket: those the loop took, then those waiting
Forwarded == driver.taken \o [i \in 1..Len(driver.net) |-> driver.net[i].k]

\* the messages read from the socket that are not 892 bytes long
WrongSize == {k \in 1..Len(driver.read) : driver.read[k] # 892}

\* C34: when the reader reads a message that is not 892 bytes long it sends
\* nothing for it and returns: it is the last message read, and what was
\* sent is every message before it, in the order read.  Every message sent
\* is 892 bytes long, and only messages sent reach App::process.
C34_ReaderStopsAtWrongSize ==
    /\ WrongSize = {} =>
          /\ driver.reader = "reading"
          /\ Forwarded = [k \in 1..Len(driver.read) |-> k]
    /\ WrongSize # {} =>
          /\ driver.reader = "returned"
          /\ WrongSize = {Len(driver.read)}
          /\ Forwarded = [k \in 1..(Len(driver.read) - 1) |-> k]
    /\ \A i \in DOMAIN driver.net : Len(driver.net[i].data) = 892
    /\ \A i \in DOMAIN driver.taken : driver.read[driver.taken[i]] = 892
    /\ lastRun.n > 0 => Len(lastRun.vcdu) = 892 /\ lastRun.n = Len(driver.taken)

\* the third message was of another size: the reader returned, and the two
\* frames before it reached the core, which emitted a file
C34_Witness ==
    /\ driver.reader = "returned"
    /\ Len(driver.read) = 3
    /\ Len(driver.taken) = 2
    /\ Len(handled) = 1

\* C35: the items waiting in the network, keyboard and log queues never
\* exceed a fixed capacity (here: any capacity below the number of frames
\* the sender makes), however far the producer is ahead of the loop.
C35_QueuesBounded ==
    \E capacity \in 0..(MaxFrames - 1) :
       /\ Len(driver.net) <= capacity
       /\ Len(driver.kbd) <= capacity
       /\ Len(driver.log) <= capacity

\* what the queues do instead: every frame read and not yet taken by the
\* loop is waiting, in order, whatever their number
C35_QueueKeepsAllFrames ==
    /\ Forwarded = [k \in 1..Len(driver.read) |-> k]
    /\ driver.reader = "reading"

\* the reader is three frames ahead of the loop
C35_ReaderAhead == Len(driver.net) = 3 /\ driver.taken = << >>

\* the loop has received a quit key
QuitReceived ==
    \E i \in DOMAIN driver.keys : driver.keys[i] \in {"q", "Esc", "Ctrl-c"}

\* what the receiver has done so far
LoopOutput == <<vcs, stats, handled, calls, lastRun, driver.taken, driver.net>>

\* C36: the loop exits when it receives q, Esc or Ctrl-C, and only then.
\* The files handed to the handlers are at all times exactly those whose
\* terminating TP_PDU was in a frame the loop processed, each passed once
\* to each handler; once the loop has exited nothing is processed any
\* more: the sessions and the TP_PDU in flight stay as they are, no LRIT is
\* emitted, no handler is called and the frames waiting in the network
\* queue stay there.
C36_QuitWithoutFlush ==
    /\ [](/\ QuitReceived <=> driver.loop = "exited"
          /\ HandledFiles = expected
          /\ Len(calls) = Len(handlers) * Len(handled)
          /\ \A k \in DOMAIN calls :
                calls[k].lrit = handled[((k - 1) \div Len(handlers)) + 1])
    /\ [][driver.loop = "exited" => LoopOutput' = LoopOutput]_vars

\* the loop has exited with a session open, a frame waiting in the network
\* queue and one file handed to the handlers
C36_Witness ==
    /\ driver.loop = "exited"
    /\ driver.net # << >>
    /\ Len(handled) = 1
    /\ \E v \in DOMAIN vcs : vcs[v].apid_map # << >>

\* the loop has exited with a TP_PDU in flight
C36_PduInFlight ==
    /\ driver.loop = "exited"
    /\ \E v \in DOMAIN vcs :
          /\ IsSome(vcs[v].current_tp_pdu)
          /\ APID(Get(vcs[v].current_tp_pdu)) # FILL_APID

\* the file reaches the length test of the DCS handler: it is a DCS file
\* with its NOAA and annotation headers whose DCS header parses
ReachesLengthTest(lrit) ==
    /\ lrit.headers.primary.filetype_code = 130
    /\ IsSome(lrit.headers.noaa)
    /\ Get(lrit.headers.noaa).product_id = 8
    /\ IsSome(lrit.headers.annotation)
    /\ DcsHeader_parse(lrit.data).ret = "Ok"
    /\ DcsHeader_parse(lrit.data).header.payload_type = <<68, 67, 83, 72>>

LengthDiffers(lrit) == DcsHeader_parse(lrit.data).header.payload_len # Len(lrit.data)

DcsOutcomes == {"Ok", "Skipped", "MissingHeader", "Parse", "Io"}

\* C37: for a DCS file whose header gives another payload length than the
\* length of the LRIT data the handler returns an outcome, Ok or an error
\* value, and the program goes on.
C37_LengthMismatchReturns ==
    (IsSome(calc.out) /\ ReachesLengthTest(calc.lrit) /\ LengthDiffers(calc.lrit)) =>
        /\ Get(calc.out) \in DcsOutcomes
        /\ ~aborted

\* the handler does return for every other file: an outcome that is Ok when
\* the file is well-formed and the disk can be written
C37_OtherFilesReturn ==
    (IsSome(calc.out) /\ ~(ReachesLengthTest(calc.lrit) /\ LengthDiffers(calc.lrit))) =>
        /\ Get(calc.out) \in DcsOutcomes
        /\ ~aborted
        /\ (ReachesLengthTest(calc.lrit) /\ calc.disk) => Get(calc.out) = "Ok"

\* a well-formed DCS file with two blocks was handled
C37_WellFormedHandled ==
    /\ IsSome(calc.out)
    /\ ReachesLengthTest(calc.lrit)
    /\ ~LengthDiffers(calc.lrit)
    /\ Len(calc.lrit.data) > 150
    /\ Get(calc.out) = "Ok"

BlockLen(kind) == Len(Block(kind, 1))

\* the true start offset of each block: the lengths of those before it
RECURSIVE TrueStarts(_, _)
TrueStarts(kinds, at) ==
    IF kinds = << >> THEN << >>
    ELSE <<at>> \o TrueStarts(Tail(kinds), at + BlockLen(Head(kinds)))

\* C40: DcsBlock::parse returns, and the cursor at the start of its loop
\* turns was at the true start of each block of the payload in turn, of
\* every block, whatever the blocks skipped and whatever their number.
C40_EveryBlockAtItsStart ==
    IsSome(calc.out) =>
        /\ Get(calc.out).ret = "Ok"
        /\ Get(calc.out).starts = TrueStarts(calc.kinds, 0)

\* the bytes from block k + 1 on outnumber k, for every block
CounterAllows(kinds) ==
    \A k \in 1..(Len(kinds) - 1) :
       k < Len(BlockBytes(kinds, 1)) - Len(BlockBytes(Take(kinds, k), 1))

\* what the loop does do: when no block has an unexpected baud rate and the
\* byte counter, which runs one ahead for every block, has not reached the
\* length of the payload, every block is visited at its start, also after a
\* block of another id or with a wrong CRC, and the well-formed are pushed
C40_VisitedWhileCounterAllows ==
    (/\ IsSome(calc.out)
     /\ \A i \in DOMAIN calc.kinds : calc.kinds[i] # "baud"
     /\ CounterAllows(calc.kinds)) =>
        /\ Get(calc.out).ret = "Ok"
        /\ Get(calc.out).starts = TrueStarts(calc.kinds, 0)
        /\ Len(Get(calc.out).blocks)
              = Cardinality({i \in DOMAIN calc.kinds : calc.kinds[i] = "good"})

\* four blocks, one of each skipped kind before a well-formed one, parsed
C40_SkipsThenGood ==
    /\ IsSome(calc.out)
    /\ calc.kinds = <<"unknown", "crc", "good", "good">>
    /\ Len(Get(calc.out).blocks) = 2

\* the bytes of a TP_PDU, header and payload
StoredBytes(p) == p.header \o p.data

\* the stored TP_PDU took every byte of the frame's data d from where it
\* starts in it: from byte 2 when it came in with an earlier frame, from
\* its own first byte otherwise
EndsFrame(p, d) ==
    \E o \in 2..(Len(d) - 1) :
       /\ Len(StoredBytes(p)) >= Len(d) - o
       /\ Drop(StoredBytes(p), Len(StoredBytes(p)) - (Len(d) - o)) = Drop(d, o)
       /\ (o = 2 \/ Len(StoredBytes(p)) = Len(d) - o)

Incomplete(p) ==
    /\ Len(p.header) <= TP_HEADER_LEN
    /\ Len(p.header) < TP_HEADER_LEN => p.data = << >>
    /\ Len(p.header) = TP_HEADER_LEN => Len(p.data) < U16(p.header, 5) + 1

\* the last frame was handed to process_vcdu, which returned
VcduReturned ==
    /\ lastRun.n > 0
    /\ lastRun.ok
    /\ ~is_fill(lastRun.vcdu)
    /\ VCID(lastRun.vcdu) \in DOMAIN vcs

\* C38: every channel holds at most one partly received TP_PDU and the one
\* held is incomplete: at most 6 header bytes, and with a complete header a
\* payload shorter than the declared length; the one that process_vcdu left
\* took the bytes of the frame to its end.
C38_StoredPduIncomplete ==
    /\ \A v \in DOMAIN vcs :
          /\ Len(vcs[v].current_tp_pdu) <= 1
          /\ IsSome(vcs[v].current_tp_pdu) => Incomplete(Get(vcs[v].current_tp_pdu))
    /\ (VcduReturned /\ IsSome(vcs[VCID(lastRun.vcdu)].current_tp_pdu)) =>
          EndsFrame(Get(vcs[VCID(lastRun.vcdu)].current_tp_pdu), data(lastRun.vcdu))

\* a frame in which a TP_PDU completed left another with its header and a
\* part of its payload
C38_LeftUnfinished ==
    /\ VcduReturned
    /\ Len(lastRun.events) > 0
    /\ IsSome(vcs[VCID(lastRun.vcdu)].current_tp_pdu)
    /\ Len(Get(vcs[VCID(lastRun.vcdu)].current_tp_pdu).header) = TP_HEADER_LEN
    /\ Len(Get(vcs[VCID(lastRun.vcdu)].current_tp_pdu).data) > 0

\* the session map of the channel before the last frame
MapBefore == lastRun.pre[VCID(lastRun.vcdu)].apid_map

\* the session map that the gap check left: the one the first TP_PDU
\* routed from the frame met, or the channel's own when none was routed
MapAfterGapCheck ==
    IF Events = << >> THEN vcs[VCID(lastRun.vcdu)].apid_map ELSE Events[1].pre

\* C39: when a frame arrives after a gap of the counter, the session map
\* after the gap check is the map before the frame, and every CRC-valid
\* TP_PDU of the frame with flag 0 or 2 whose APID has a session extends
\* that session or finishes it into an LRIT; the channel's last_counter is
\* the frame's counter.
C39_GapKeepsSessions ==
    (GapRun /\ lastRun.ok) =>
        /\ MapAfterGapCheck = MapBefore
        /\ vcs[VCID(lastRun.vcdu)].last_counter = counter(lastRun.vcdu)
        /\ \A i \in DOMAIN Events :
              LET e == Events[i] IN
              /\ i > 1 => e.pre = Events[i - 1].post
              /\ i = Len(Events) => e.post = vcs[VCID(lastRun.vcdu)].apid_map
              /\ (e.flags \in {0, 2} /\ CrcHolds(e.pdu) /\ e.apid \in DOMAIN e.pre) =>
                    /\ e.flags = 0 =>
                          /\ e.apid \in DOMAIN e.post
                          /\ e.post[e.apid].bytes = e.pre[e.apid].bytes \o Payload(e)
                          /\ e.lrit = None
                    /\ e.flags = 2 =>
                          /\ e.apid \notin DOMAIN e.post
                          /\ IsSome(e.lrit)

\* a frame was lost with a TP_PDU of an open session in it, the TP_PDU in
\* flight was dropped at the gap, and the next TP_PDU of the session's APID
\* extended or finished the session
C39_Witness ==
    /\ GapRun
    /\ lastRun.ok
    /\ IsSome(lastRun.pre[VCID(lastRun.vcdu)].current_tp_pdu)
    /\ \E i \in DOMAIN Events :
          /\ Events[i].flags \in {0, 2}
          /\ CrcHolds(Events[i].pdu)
          /\ Events[i].apid \in DOMAIN MapBefore
          /\ (Events[i].seq + SeqModulus - MapBefore[Events[i].apid].last_seq)
                % SeqModulus > 1
          /\ Events[i].pre[Events[i].apid] = MapBefore[Events[i].apid]

====
